---- MODULE Spec2Model ----
(***************************************************************************)
(* Model of the model-lifecycle core of the StockNeuro backend:            *)
(*   - ml/safe_promotion.py  (SafeModelPromoter)                           *)
(*   - ml/model_registry.py  (ModelRegistry, over an MLflow-style backend) *)
(*   - ml/evaluation/backtesting.py (WalkForwardBacktester)                *)
(*                                                                         *)
(* Metric values are floats in the source.  They are modelled as exact     *)
(* numbers in hundredths (0.8 is 80) together with the IEEE special values *)
(* NaN and +/-inf; a key absent from a metrics dict is "missing".          *)
(***************************************************************************)
EXTENDS Integers, Sequences, FiniteSets, TLC

VARIABLES
    \* ---- SafeModelPromoter.should_promote, one call ----
    candidate_metrics,   \* argument candidate_metrics
    champion_metrics,    \* argument champion_metrics
    npfloat,             \* TRUE: the dict values are numpy.float64, FALSE: Python floats
    decision,            \* what the call returned (or raised)
    \* ---- ModelRegistry backend and SafeModelPromoter.evaluate_and_promote ----
    registry,            \* versions of the one model_name: version v is registry[v]
    registry_enabled,    \* SafeModelPromoter.registry is not None
    call,                \* the last operation and the inputs it was given
    pre,                 \* the stage of every version before the last operation
    result,              \* what the last operation returned
    \* ---- SafeModelPromoter.evaluate_model_with_backtesting, one call ----
    bt_args,             \* series length and window parameters of the call
    bt_result,           \* outcome of the call
    \* ---- WalkForwardBacktester.backtest, one call, one loop iteration a step ----
    wf_args,             \* len(data) and the backtester's train/test/step sizes
    wf_pc,               \* "start", "loop" or "returned" ("idle": no call)
    wf_splits,           \* splits = self.split_data(data, dates)
    wf_i,                \* number of loop iterations completed
    wf_outcomes,         \* what the callables and the scoring did in each iteration
    wf_results,          \* results
    wf_predictions,      \* all_predictions
    wf_actuals,          \* all_actuals
    wf_ret,              \* the dict returned
    \* ---- ModelLoader shared by concurrent threads ----
    ld_cache,            \* self._model_cache: cache key -> model
    ld_lock,             \* the thread inside "with self._lock", or NoThread
    ld_warm,             \* self._warmup_complete
    ld_enabled,          \* self._registry and settings.MLFLOW_ENABLED
    ld_regcache,         \* ModelRegistry._model_cache of the loader's registry
    ld_backend,          \* version of the artifact MLflow resolves each key to, 0: none
    ld_thr,              \* per thread: the call it is in, its position and locals
    ld_calls,            \* number of calls made so far
    ld_hist,             \* per key, what the calls so far did (for the properties)
    \* ---- PredictionService.predict, one request ----
    pr_in,               \* the request, the settings and what the collaborators do
    pr_pc,               \* position of the handler
    pr_type,             \* model_type_upper
    pr_events,           \* calls made on the collaborators, in order
    pr_cached,           \* cache keys written by cache_trained_model
    \* ---- ConformalPrediction, one wrapper ----
    cf_coverage,         \* self.coverage, a fraction
    cf_alpha,            \* self.alpha, a fraction
    cf_adaptive,         \* self.adaptive
    cf_scores,           \* self.calibration_scores
    cf_quantile,         \* self.quantile
    cf_history,          \* self.coverage_history, each entry with its arrival number
    cf_batch,            \* |actual - prediction| of the batch that monitoring feeds
    cf_updates,          \* number of observations appended so far
    cf_last,             \* the last call: what it returned and what it left
    \* ---- AutoLearningBrain.suggest_hyperparameters, one call ----
    sg_in,               \* the arguments, the brain's flags and what the trial does
    sg_out,              \* what the call returned, with the output of each stage
    \* ---- WalkForwardBacktester.split_data, one loop iteration a step, for a
    \* ---- rolling and an expanding backtester given the same series ----
    sp_args,             \* len(data), train_size, test_size and step_size
    sp_pc,               \* per strategy: "start", "loop" or "returned" ("idle": no call)
    sp_start,            \* per strategy: start_idx
    sp_splits,           \* per strategy: splits (the first MaxSplits of them)
    sp_passes,           \* per strategy: passes of the loop made, counted as Passes counts
    \* ---- the PredictionService shared by the routes ----
    sv_sequence_length,  \* self.sequence_length
    sv_requests,         \* number of requests served so far
    sv_last              \* the last request: its arguments, the length it used, its outcome

vars == <<candidate_metrics, champion_metrics, npfloat, decision,
          registry, registry_enabled, call, pre, result, bt_args, bt_result,
          wf_args, wf_pc, wf_splits, wf_i, wf_outcomes, wf_results,
          wf_predictions, wf_actuals, wf_ret,
          ld_cache, ld_lock, ld_warm, ld_enabled, ld_regcache, ld_backend,
          ld_thr, ld_calls, ld_hist,
          pr_in, pr_pc, pr_type, pr_events, pr_cached,
          cf_coverage, cf_alpha, cf_adaptive, cf_scores, cf_quantile,
          cf_history, cf_batch, cf_updates, cf_last,
          sg_in, sg_out,
          sp_args, sp_pc, sp_start, sp_splits, sp_passes,
          sv_sequence_length, sv_requests, sv_last>>

decideVars == <<candidate_metrics, champion_metrics, npfloat, decision>>
registryVars == <<registry, registry_enabled, call, pre, result>>
backtestVars == <<bt_args, bt_result>>
walkVars == <<wf_args, wf_pc, wf_splits, wf_i, wf_outcomes, wf_results,
              wf_predictions, wf_actuals, wf_ret>>
loaderVars == <<ld_cache, ld_lock, ld_warm, ld_enabled, ld_regcache, ld_backend,
                ld_thr, ld_calls, ld_hist>>
predictVars == <<pr_in, pr_pc, pr_type, pr_events, pr_cached>>
conformalVars == <<cf_coverage, cf_alpha, cf_adaptive, cf_scores, cf_quantile,
                   cf_history, cf_batch, cf_updates, cf_last>>
suggestVars == <<sg_in, sg_out>>
splitVars == <<sp_args, sp_pc, sp_start, sp_splits, sp_passes>>
serviceVars == <<sv_sequence_length, sv_requests, sv_last>>

----------------------------------------------------------------------------
(* Bounds *)

\* largest metric value (hundredths) offered to should_promote
MaxMetric == 100
\* largest number of versions registered under the model name
MaxVersions == 3
\* largest series length offered to evaluate_model_with_backtesting
MaxLen == 12
\* largest train_size, test_size, step_size and sequence_length offered
MaxTrain == 8
MaxTest == 2
MaxStep == 2
MaxSeq == 2
\* largest series length and train_size offered to WalkForwardBacktester.backtest
MaxWalkLen == 6
MaxWalkTrain == 3
\* number of ModelLoader calls the threads make in one run
MaxCalls == 3
\* newest artifact version the MLflow backend comes to hold for a key
MaxArtifact == 1
\* newest version that promotions between the loader's calls make Champion
MaxPromoted == 2
\* number of requests the shared PredictionService serves in one run
MaxRequests == 4
\* number of observations update_coverage appends in one run
MaxUpdates == 103
\* number of splits of a split_data call that are kept, and how far below 0
\* start_idx is followed; a call that returns on the series offered makes
\* fewer splits and never goes below 0
MaxSplits == 7

----------------------------------------------------------------------------
(* Float values: [k |-> kind, n |-> numerator, d |-> denominator]          *)

Fin(n, d) == [k |-> "fin", n |-> n, d |-> d]
Num(x) == Fin(x, 1)
NaN == [k |-> "nan", n |-> 0, d |-> 1]
PInf == [k |-> "pinf", n |-> 0, d |-> 1]
NInf == [k |-> "ninf", n |-> 0, d |-> 1]
\* a key that is absent from the dict
Missing == [k |-> "missing", n |-> 0, d |-> 1]
\* the value of an expression whose evaluation raised ZeroDivisionError
Raised == [k |-> "zerodiv", n |-> 0, d |-> 1]

\* dict.get(key, float('inf'))
GetOrInf(m, key) == IF m[key] = Missing THEN PInf ELSE m[key]

\* np.isnan(x)
IsNan(x) == x.k = "nan"

Sign(x) ==
    CASE x.k = "pinf" -> 1
      [] x.k = "ninf" -> -1
      [] x.k = "fin" -> (IF x.n > 0 THEN 1 ELSE IF x.n < 0 THEN -1 ELSE 0)
      [] OTHER -> 0

\* a - b on floats
FSub(a, b) ==
    CASE a.k = "nan" \/ b.k = "nan" -> NaN
      [] a.k = "fin" /\ b.k = "fin" -> Fin(a.n * b.d - b.n * a.d, a.d * b.d)
      [] a.k = "fin" -> (IF b.k = "pinf" THEN NInf ELSE PInf)
      [] b.k = "fin" -> a
      [] a.k = b.k -> NaN
      [] OTHER -> a

\* a / b on floats.  A zero divisor raises ZeroDivisionError on Python floats
\* and yields inf or nan (with a warning) on numpy.float64.
FDiv(a, b, numpy) ==
    CASE a.k = "zerodiv" -> Raised
      [] b.k = "fin" /\ b.n = 0 ->
            (IF ~numpy THEN Raised
             ELSE IF a.k = "nan" \/ Sign(a) = 0 THEN NaN
             ELSE IF Sign(a) > 0 THEN PInf ELSE NInf)
      [] a.k = "nan" \/ b.k = "nan" -> NaN
      [] a.k = "fin" /\ b.k = "fin" ->
            (IF b.n > 0 THEN Fin(a.n * b.d, a.d * b.n)
                        ELSE Fin(-(a.n * b.d), a.d * (-b.n)))
      [] a.k = "fin" -> Num(0)
      [] b.k = "fin" -> (IF Sign(a) * Sign(b) > 0 THEN PInf ELSE NInf)
      [] OTHER -> NaN

\* the comparison written as "any improvement", without the threshold
FGe_AnyImprovement(x, p, q) ==
    CASE x.k = "pinf" -> TRUE
      [] x.k = "fin" -> x.n > 0
      [] OTHER -> FALSE

\* x >= p/q for a float x and a positive rational p/q
FGe(x, p, q) ==
    CASE x.k = "pinf" -> TRUE
      [] x.k = "fin" -> x.n * q >= p * x.d
      [] OTHER -> FALSE

\* x < 0
FNeg(x) ==
    CASE x.k = "ninf" -> TRUE
      [] x.k = "fin" -> x.n < 0
      [] OTHER -> FALSE

\* a < b on floats
FLess(a, b) ==
    CASE a.k = "nan" \/ b.k = "nan" -> FALSE
      [] a.k = "fin" /\ b.k = "fin" -> a.n * b.d < b.n * a.d
      [] a.k = "ninf" -> b.k # "ninf"
      [] b.k = "pinf" -> a.k # "pinf"
      [] OTHER -> FALSE

Abs(i) == IF i < 0 THEN -i ELSE i

\* f"{x*100:.2f}": the percentage in hundredths of a percent, rounded to nearest
Pct(x) ==
    CASE x.k = "fin" ->
            [k |-> "fin",
             v |-> (IF x.n >= 0 THEN (2 * 10000 * x.n + x.d) \div (2 * x.d)
                                ELSE -((2 * 10000 * (-x.n) + x.d) \div (2 * x.d)))]
      [] OTHER -> [k |-> x.k, v |-> 0]

\* f"{abs(x)*100:.2f}"
PctAbs(x) ==
    CASE x.k = "fin" -> [k |-> "fin", v |-> (2 * 10000 * Abs(x.n) + x.d) \div (2 * x.d)]
      [] x.k = "ninf" -> [k |-> "pinf", v |-> 0]
      [] OTHER -> [k |-> x.k, v |-> 0]

----------------------------------------------------------------------------
(* SafeModelPromoter.should_promote *)

\* self.promotion_threshold = 0.05, as the fraction ThresholdNum/ThresholdDen
ThresholdNum == 5
ThresholdDen == 100

\* return value (should_promote, reason); raised = TRUE when the call raised
Ret(b, kind, pct) == [raised |-> FALSE, promote |-> b, reason |-> kind, pct |-> pct]
Raise(exc) == [raised |-> TRUE, promote |-> FALSE, reason |-> exc, pct |-> [k |-> "none", v |-> 0]]

\* the float operands are numpy values when the candidate's value is one
IsNumpy(cand, key, numpy) == numpy /\ cand[key] # Missing

should_promote(cand, champ, numpy) ==
    LET candidate_mase == GetOrInf(cand, "mase")
        champion_mase == GetOrInf(champ, "mase")
    IN
    IF IsNan(candidate_mase) \/ IsNan(champion_mase)
    THEN
        LET candidate_rmse == GetOrInf(cand, "rmse")
            champion_rmse == GetOrInf(champ, "rmse")
        IN
        IF IsNan(candidate_rmse) \/ IsNan(champion_rmse)
        THEN Ret(FALSE, "Cannot compare: missing metrics", [k |-> "none", v |-> 0])
        ELSE
            LET improvement == FDiv(FSub(champion_rmse, candidate_rmse), champion_rmse,
                                    IsNumpy(cand, "rmse", numpy))
            IN
            IF improvement = Raised THEN Raise("ZeroDivisionError")
            ELSE IF FGe(improvement, ThresholdNum, ThresholdDen)
            THEN Ret(TRUE, "RMSE improved by", Pct(improvement))
            ELSE Ret(FALSE, "RMSE improvement below threshold", Pct(improvement))
    ELSE
        LET improvement == FDiv(FSub(champion_mase, candidate_mase), champion_mase,
                                IsNumpy(cand, "mase", numpy))
        IN
        IF improvement = Raised THEN Raise("ZeroDivisionError")
        ELSE IF FGe(improvement, ThresholdNum, ThresholdDen)
        THEN
            LET candidate_smape == GetOrInf(cand, "smape")
                champion_smape == GetOrInf(champ, "smape")
            IN
            IF ~(IsNan(candidate_smape) \/ IsNan(champion_smape))
            THEN
                LET smape_improvement ==
                        FDiv(FSub(champion_smape, candidate_smape), champion_smape,
                             IsNumpy(cand, "smape", numpy))
                IN
                IF smape_improvement = Raised THEN Raise("ZeroDivisionError")
                ELSE IF FNeg(smape_improvement)
                THEN Ret(FALSE, "MASE improved but sMAPE degraded by", PctAbs(smape_improvement))
                ELSE Ret(TRUE, "MASE improved by", Pct(improvement))
            ELSE Ret(TRUE, "MASE improved by", Pct(improvement))
        ELSE Ret(FALSE, "MASE improvement below threshold", Pct(improvement))

----------------------------------------------------------------------------
(* Inputs offered to should_promote *)

MetricNums == {0, 80, 95, 96, 98} \cup (100 .. MaxMetric)
SmapeNums == {0, 5, 6}
MetricValues == {Missing, NaN} \cup {Num(x) : x \in MetricNums}
SmapeValues == {Missing, NaN} \cup {Num(x) : x \in SmapeNums}
MetricMaps == [mase : MetricValues, rmse : MetricValues, smape : SmapeValues]

NoMetrics == [mase |-> Missing, rmse |-> Missing, smape |-> Missing]
NoDecision == [raised |-> FALSE, promote |-> FALSE, reason |-> "none", pct |-> [k |-> "none", v |-> 0]]

DecideIdle ==
    /\ candidate_metrics = NoMetrics
    /\ champion_metrics = NoMetrics
    /\ npfloat = FALSE
    /\ decision = NoDecision

\* the arguments of one call of should_promote
DecideInit ==
    /\ candidate_metrics \in MetricMaps
    /\ champion_metrics \in MetricMaps
    /\ npfloat \in BOOLEAN
    /\ decision = NoDecision

\* the call promoter.should_promote(candidate_metrics, champion_metrics)
ShouldPromoteCall ==
    /\ decision = NoDecision
    /\ decision' = should_promote(candidate_metrics, champion_metrics, npfloat)
    /\ UNCHANGED <<candidate_metrics, champion_metrics, npfloat>>

----------------------------------------------------------------------------
(* Registry backend: the versions registered under one model name.         *)
(* registry[v] is version v: its stage and the metrics logged with its run *)

Stages == {"None", "Champion", "Archived"}

Max(S) == CHOOSE x \in S : \A y \in S : y <= x

Min(a, b) == IF a < b THEN a ELSE b
MinOf(S) == CHOOSE x \in S : \A y \in S : x <= y

\* get_latest_versions returning the oldest Champion version
LatestChampion_Oldest(reg) ==
    LET C == {v \in 1 .. Len(reg) : reg[v].stage = "Champion"}
    IN IF C = {} THEN 0 ELSE MinOf(C)

\* client.get_latest_versions(model_name, stages=["Champion"]): the newest
\* version in stage Champion, 0 when the list is empty
LatestChampion(reg) ==
    LET C == {v \in 1 .. Len(reg) : reg[v].stage = "Champion"}
    IN IF C = {} THEN 0 ELSE Max(C)

\* client.transition_model_version_stage(name, version, stage)
SetStage(reg, version, stage) == [reg EXCEPT ![version].stage = stage]

StagesOf(reg) == [v \in 1 .. Len(reg) |-> reg[v].stage]

Champions(reg) == {v \in 1 .. Len(reg) : reg[v].stage = "Champion"}

\* Registry calls that can fail.  A set F of these names says which calls
\* raise if the invocation reaches them.
\*   save              logging or registering the model inside save_model
\*   inner_lookup      get_latest_versions/get_run in _promote_to_champion_if_better
\*   inner_transition  the transition on the new_rmse < champion_rmse branch
\*   first_transition  the transition at the end of _promote_to_champion_if_better
\*   lookup            get_latest_versions/get_run in evaluate_and_promote
\*   transition        the transition of the saved version to Champion
\*   archive           the transition of the previous champion to Archived
SaveFailures == {"save", "inner_lookup", "inner_transition", "first_transition"}
PromoteFailures == {"lookup", "transition", "archive"} \cup SaveFailures

\* ModelRegistry._promote_to_champion_if_better, run after the new version
\* was registered in stage None
promote_to_champion_if_better(reg, version, metrics, F) ==
    LET champion == IF "inner_lookup" \in F THEN 0 ELSE LatestChampion(reg)
        f0 == IF "inner_lookup" \in F THEN {"inner_lookup"} ELSE {}
        champion_rmse == IF champion = 0 THEN PInf
                         ELSE GetOrInf(reg[champion].metrics, "rmse")
        new_rmse == GetOrInf(metrics, "rmse")
        better == champion # 0 /\ FLess(new_rmse, champion_rmse)
    IN
    IF better /\ "inner_transition" \notin F
    THEN [reg |-> SetStage(reg, version, "Champion"), failed |-> f0]
    ELSE
        \* not better, no champion, or the inner try block raised: fall through
        LET f1 == IF better THEN f0 \cup {"inner_transition"} ELSE f0
        IN
        IF "first_transition" \in F
        THEN [reg |-> reg, failed |-> f1 \cup {"first_transition"}]
        ELSE [reg |-> SetStage(reg, version, "Champion"), failed |-> f1]

\* ModelRegistry.save_model: version 0 stands for the return value None
save_model(reg, metrics, F) ==
    IF "save" \in F
    THEN [reg |-> reg, version |-> 0, failed |-> {"save"}]
    ELSE
        LET version == Len(reg) + 1
            registered == Append(reg, [stage |-> "None", metrics |-> metrics])
            p == promote_to_champion_if_better(registered, version, metrics, F)
        IN [reg |-> p.reg, version |-> version, failed |-> p.failed]

----------------------------------------------------------------------------
(* SafeModelPromoter.evaluate_and_promote *)

\* evaluate_model_with_backtesting raised
BacktestRaised == [mase |-> Raised, rmse |-> Raised, smape |-> Raised]

Out(reg, promoted, reason, version, failed, saves) ==
    [reg |-> reg, promoted |-> promoted, reason |-> reason, version |-> version,
     failed |-> failed, saves |-> saves, raised |-> FALSE]

\* ArchiveOld with the archive call outside any try block: its failure is
\* caught by the handler of the whole evaluation
ArchiveOld_Fatal(promotedReg, version, champion_version, reason, failed, F) ==
    IF "archive" \in F
    THEN Out(promotedReg, FALSE, "Error during evaluation", 0,
             failed \cup {"archive"}, 1)
    ELSE Out(SetStage(promotedReg, champion_version, "Archived"),
             TRUE, reason, version, failed, 1)

\* lines 326-346: archive the old champion, then report the promotion
ArchiveOld(promotedReg, version, champion_version, reason, failed, F) ==
    IF "archive" \in F
    THEN Out(promotedReg, TRUE, reason, version, failed \cup {"archive"}, 1)
    ELSE Out(SetStage(promotedReg, champion_version, "Archived"),
             TRUE, reason, version, failed, 1)

\* AfterSave that takes a failed save (version None) for a success
AfterSave_IgnoresFailedSave(s, champion_version, reason, F) ==
    IF s.version # 0
    THEN
        IF "transition" \in F
        THEN Out(s.reg, FALSE, "Error during evaluation", 0,
                 s.failed \cup {"transition"}, 1)
        ELSE
            LET promotedReg == SetStage(s.reg, s.version, "Champion")
            IN
            IF champion_version = 0
            THEN Out(promotedReg, TRUE, reason, s.version, s.failed, 1)
            ELSE ArchiveOld(promotedReg, s.version, champion_version, reason,
                            s.failed, F)
    ELSE Out(s.reg, TRUE, reason, 0, s.failed, 1)

\* lines 284-300 and 318-351: what follows a call of registry.save_model
AfterSave(s, champion_version, reason, F) ==
    IF s.version # 0
    THEN
        IF "transition" \in F
        THEN Out(s.reg, FALSE, "Error during evaluation", 0,
                 s.failed \cup {"transition"}, 1)
        ELSE
            LET promotedReg == SetStage(s.reg, s.version, "Champion")
            IN
            IF champion_version = 0
            THEN Out(promotedReg, TRUE, reason, s.version, s.failed, 1)
            ELSE ArchiveOld(promotedReg, s.version, champion_version, reason,
                            s.failed, F)
    ELSE Out(s.reg, FALSE, "Failed to save model to registry", 0, s.failed, 1)

evaluate_and_promote(reg, enabled, bt, F) ==
    IF ~enabled
    THEN Out(reg, FALSE, "Model registry not available", 0, {}, 0)
    ELSE IF bt = BacktestRaised
    THEN Out(reg, FALSE, "Error in backtesting", 0, {}, 0)
    ELSE IF "lookup" \in F
    THEN Out(reg, FALSE, "Error during evaluation", 0, {"lookup"}, 0)
    ELSE
        LET champion_version == LatestChampion(reg)
        IN
        IF champion_version = 0
        THEN AfterSave(save_model(reg, bt, F), 0,
                       "First model, automatically promoted", F)
        ELSE
            LET stored == reg[champion_version].metrics
                champion_metrics_ == [mase |-> GetOrInf(stored, "mase"),
                                      rmse |-> GetOrInf(stored, "rmse"),
                                      smape |-> GetOrInf(stored, "smape")]
                d == should_promote(bt, champion_metrics_, TRUE)
            IN
            IF d.raised
            THEN Out(reg, FALSE, "Error during evaluation", 0, {}, 0)
            ELSE IF d.promote
            THEN AfterSave(save_model(reg, bt, F), champion_version, d.reason, F)
            ELSE Out(reg, FALSE, d.reason, 0, {}, 0)

----------------------------------------------------------------------------
(* The registry under a single writer *)

\* mean backtest metrics of a candidate: numpy floats, never missing
CandidateMaps ==
    { [mase |-> Num(100), rmse |-> Num(100), smape |-> Num(5)],
      [mase |-> Num(80),  rmse |-> Num(80),  smape |-> Num(5)],
      [mase |-> Num(80),  rmse |-> Num(100), smape |-> Num(6)],
      [mase |-> NaN,      rmse |-> Num(80),  smape |-> Num(5)] }

\* metrics passed to a direct registry.save_model call
SaveMaps ==
    { [mase |-> Missing, rmse |-> Num(100), smape |-> Missing],
      [mase |-> Missing, rmse |-> Num(80), smape |-> Missing],
      NoMetrics }

NoCall == [op |-> "none", metrics |-> NoMetrics]
NoResult == [promoted |-> FALSE, reason |-> "none", version |-> 0,
             failed |-> {}, saves |-> 0, raised |-> FALSE]

RegistryInit ==
    /\ registry = << >>
    /\ registry_enabled \in BOOLEAN
    /\ call = NoCall
    /\ pre = << >>
    /\ result = NoResult

\* one call registry.save_model(model, model_name, metrics, params)
SaveModel ==
    \E m \in SaveMaps, F \in SUBSET SaveFailures :
        /\ Len(registry) < MaxVersions
        /\ \E s \in {save_model(registry, m, F)} :
              /\ registry' = s.reg
              /\ result' = [NoResult EXCEPT !.version = s.version,
                                            !.failed = s.failed, !.saves = 1]
        /\ call' = [op |-> "save_model", metrics |-> m]
        /\ pre' = StagesOf(registry)
        /\ UNCHANGED registry_enabled

\* one call promoter.evaluate_and_promote(model_type, model, data, metrics,
\* params, model_name)
EvaluateAndPromote ==
    \E bt \in CandidateMaps \cup {BacktestRaised}, F \in SUBSET PromoteFailures :
        /\ Len(registry) < MaxVersions
        /\ \E o \in {evaluate_and_promote(registry, registry_enabled, bt, F)} :
              /\ registry' = o.reg
              /\ result' = [promoted |-> o.promoted, reason |-> o.reason,
                            version |-> o.version, failed |-> o.failed,
                            saves |-> o.saves, raised |-> o.raised]
        /\ call' = [op |-> "evaluate_and_promote", metrics |-> bt]
        /\ pre' = StagesOf(registry)
        /\ UNCHANGED registry_enabled

----------------------------------------------------------------------------
(* WalkForwardBacktester and SafeModelPromoter.evaluate_model_with_backtesting *)

\* self.min_splits = 3
min_splits == 3

\* defaults of evaluate_model_with_backtesting
DefaultSequenceLength == 60
DefaultTrainSize == 200
DefaultTestSize == 50
DefaultStepSize == 25

\* len(X) for X, y = create_sequences(data, sequence_length) on len(data) = n:
\* one sequence for every i in range(sequence_length, n)
SequenceCount(n, sequence_length) ==
    IF n > sequence_length THEN n - sequence_length ELSE 0

\* the while loop of WalkForwardBacktester.split_data, entered with start_idx
\* and the splits made so far (step_size >= 1)
RECURSIVE SplitLoop(_, _, _, _, _, _)
SplitLoop(n, train_size, test_size, step_size, start_idx, splits) ==
    IF start_idx + train_size + test_size <= n
    THEN
        LET train_end == start_idx + train_size
            test_end == Min(train_end + test_size, n)
            split_info == [train_start |-> start_idx, train_end |-> train_end,
                           test_start |-> train_end, test_end |-> test_end,
                           split_number |-> Len(splits) + 1]
            appended == Append(splits, split_info)
            next_idx == start_idx + step_size
        IN
        IF next_idx + train_size + test_size > n
        THEN appended
        ELSE SplitLoop(n, train_size, test_size, step_size, next_idx, appended)
    ELSE splits

\* split_data whose first window starts one step into the series
split_data_SkipsFirstWindow(n, train_size, test_size, step_size) ==
    IF n < train_size + test_size
    THEN << >>
    ELSE SplitLoop(n, train_size, test_size, step_size, step_size, << >>)

\* WalkForwardBacktester.split_data on a series of n points
split_data(n, train_size, test_size, step_size) ==
    IF n < train_size + test_size
    THEN << >>
    ELSE SplitLoop(n, train_size, test_size, step_size, 0, << >>)

\* one iteration of the loop of WalkForwardBacktester.backtest with the
\* closures train_model_fn and predict_fn of evaluate_model_with_backtesting:
\* the kind of entry appended to results
SplitResult(split, sequence_length, train_raises) ==
    LET train_len == split.train_end - split.train_start
        test_len == split.test_end - split.test_start
        \* predict_fn returns one prediction per sequence of the test segment
        predictions == SequenceCount(test_len, sequence_length)
    IN
    IF SequenceCount(train_len, sequence_length) = 0 \/ train_raises
    THEN [split_number |-> split.split_number, kind |-> "error"]
    ELSE IF predictions # test_len
    \* calculate_all_metrics rejects arrays of different lengths
    THEN [split_number |-> split.split_number, kind |-> "error"]
    ELSE [split_number |-> split.split_number, kind |-> "metrics"]

\* WalkForwardBacktester.backtest: total_splits and the per-split entries;
\* the result for an empty split list has no total_splits key, read as 0
backtest(n, sequence_length, train_size, test_size, step_size, train_raises) ==
    LET splits == split_data(n, train_size, test_size, step_size)
    IN [total_splits |-> Len(splits),
        split_results |-> [i \in 1 .. Len(splits) |->
                              SplitResult(splits[i], sequence_length, train_raises)]]

\* evaluate_model_with_backtesting that rejects only an empty backtest
evaluate_model_with_backtesting_OnlyEmpty(n, sequence_length, train_size, test_size, step_size, train_raises) ==
    IF SequenceCount(n, sequence_length) < train_size + test_size
    THEN [outcome |-> "raise: Insufficient data for backtesting",
          total_splits |-> 0, metric_entries |-> 0]
    ELSE
        LET backtest_results == backtest(n, sequence_length, train_size,
                                         test_size, step_size, train_raises)
            all_metrics == {i \in 1 .. backtest_results.total_splits :
                               backtest_results.split_results[i].kind = "metrics"}
        IN
        IF backtest_results.total_splits = 0
        THEN [outcome |-> "raise: Insufficient backtest splits",
              total_splits |-> backtest_results.total_splits, metric_entries |-> 0]
        ELSE [outcome |-> "returned metrics",
              total_splits |-> backtest_results.total_splits,
              metric_entries |-> Cardinality(all_metrics)]

evaluate_model_with_backtesting(n, sequence_length, train_size, test_size, step_size, train_raises) ==
    IF SequenceCount(n, sequence_length) < train_size + test_size
    THEN [outcome |-> "raise: Insufficient data for backtesting",
          total_splits |-> 0, metric_entries |-> 0]
    ELSE
        LET backtest_results == backtest(n, sequence_length, train_size,
                                         test_size, step_size, train_raises)
            all_metrics == {i \in 1 .. backtest_results.total_splits :
                               backtest_results.split_results[i].kind = "metrics"}
        IN
        IF backtest_results.total_splits < min_splits
        THEN [outcome |-> "raise: Insufficient backtest splits",
              total_splits |-> backtest_results.total_splits, metric_entries |-> 0]
        ELSE [outcome |-> "returned metrics",
              total_splits |-> backtest_results.total_splits,
              metric_entries |-> Cardinality(all_metrics)]

BacktestArgs ==
    [n : 0 .. MaxLen, sequence_length : 1 .. MaxSeq, train_size : 1 .. MaxTrain,
     test_size : 1 .. MaxTest, step_size : 1 .. MaxStep, train_raises : BOOLEAN]
    \cup
    \* the defaults of the source on series of 100, 300 and 360 points
    [n : {100, 300, 360}, sequence_length : {DefaultSequenceLength},
     train_size : {DefaultTrainSize}, test_size : {DefaultTestSize},
     step_size : {DefaultStepSize}, train_raises : BOOLEAN]

NoBacktest == [outcome |-> "none", total_splits |-> 0, metric_entries |-> 0]

BacktestIdle ==
    /\ bt_args = [n |-> 0, sequence_length |-> 1, train_size |-> 1,
                  test_size |-> 1, step_size |-> 1, train_raises |-> FALSE]
    /\ bt_result = NoBacktest

\* the arguments of one call of evaluate_model_with_backtesting
BacktestInit ==
    /\ bt_args \in BacktestArgs
    /\ bt_result = NoBacktest

\* the call promoter.evaluate_model_with_backtesting(model_type, data, ...)
EvaluateModelWithBacktesting ==
    /\ bt_result = NoBacktest
    /\ bt_result' = evaluate_model_with_backtesting(
                        bt_args.n, bt_args.sequence_length, bt_args.train_size,
                        bt_args.test_size, bt_args.step_size, bt_args.train_raises)
    /\ UNCHANGED bt_args

----------------------------------------------------------------------------
(* WalkForwardBacktester.backtest with arbitrary train and predict callables *)

\* what the body of the try block does for one split: model_train_fn raises,
\* model_predict_fn raises, calculate_all_metrics raises (sklearn rejects
\* predictions whose length differs from the test window's, or that hold
\* NaN), or all three return.  model_predict_fn returns a sequence of
\* predictions, as its signature (model, test_data) -> predictions says.
WalkOutcomes == {"ok", "train_raises", "predict_raises", "metrics_raises"}

\* the entry appended to results for one split
WalkEntry(split, outcome) ==
    IF outcome = "ok"
    THEN [split_number |-> split.split_number, kind |-> "metrics"]
    ELSE [split_number |-> split.split_number, kind |-> "error"]

\* the predictions of one evaluated split, one per point of its test window
WalkPredictions(split) ==
    [j \in 1 .. (split.test_end - split.test_start) |->
        [split_number |-> split.split_number, point |-> split.test_start + j - 1]]

\* split["test_data"] = data[test_start:test_end], as indices into data
WalkActuals(split) ==
    [j \in 1 .. (split.test_end - split.test_start) |-> split.test_start + j - 1]

WalkArgs ==
    [n : 0 .. MaxWalkLen, train_size : 1 .. MaxWalkTrain,
     test_size : 1 .. MaxTest, step_size : 1 .. MaxStep]
    \cup
    [n : {300}, train_size : {DefaultTrainSize}, test_size : {DefaultTestSize},
     step_size : {DefaultStepSize}]

NoWalk == [kind |-> "none"]

WalkIdle ==
    /\ wf_args = [n |-> 0, train_size |-> 1, test_size |-> 1, step_size |-> 1]
    /\ wf_pc = "idle"
    /\ wf_splits = << >>
    /\ wf_i = 0
    /\ wf_outcomes = << >>
    /\ wf_results = << >>
    /\ wf_predictions = << >>
    /\ wf_actuals = << >>
    /\ wf_ret = NoWalk

\* a backtester and the series handed to backtest
WalkInit ==
    /\ wf_args \in WalkArgs
    /\ wf_pc = "start"
    /\ wf_splits = << >>
    /\ wf_i = 0
    /\ wf_outcomes = << >>
    /\ wf_results = << >>
    /\ wf_predictions = << >>
    /\ wf_actuals = << >>
    /\ wf_ret = NoWalk

\* backtest up to the loop: split the series, return at once without splits
BacktestBegin ==
    /\ wf_pc = "start"
    /\ wf_splits' = split_data(wf_args.n, wf_args.train_size, wf_args.test_size,
                               wf_args.step_size)
    /\ IF Len(wf_splits') = 0
       THEN /\ wf_pc' = "returned"
            /\ wf_ret' = [kind |-> "error", splits |-> 0, results |-> << >>]
       ELSE /\ wf_pc' = "loop"
            /\ wf_ret' = wf_ret
    /\ UNCHANGED <<wf_args, wf_i, wf_outcomes, wf_results, wf_predictions,
                   wf_actuals>>

\* a loop that a failing split ends, nothing being recorded for it
BacktestSplit_AbortsOnError ==
    /\ wf_pc = "loop"
    /\ wf_i < Len(wf_splits)
    /\ \E outcome \in WalkOutcomes :
          LET split == wf_splits[wf_i + 1] IN
          /\ wf_outcomes' = Append(wf_outcomes, outcome)
          /\ IF outcome = "ok"
             THEN /\ wf_results' = Append(wf_results, WalkEntry(split, outcome))
                  /\ wf_predictions' = wf_predictions \o WalkPredictions(split)
                  /\ wf_actuals' = wf_actuals \o WalkActuals(split)
                  /\ wf_i' = wf_i + 1
             ELSE /\ wf_i' = Len(wf_splits)
                  /\ UNCHANGED <<wf_results, wf_predictions, wf_actuals>>
    /\ UNCHANGED <<wf_args, wf_pc, wf_splits, wf_ret>>

\* one iteration of "for i, split in enumerate(splits)"
BacktestSplit ==
    /\ wf_pc = "loop"
    /\ wf_i < Len(wf_splits)
    /\ \E outcome \in WalkOutcomes :
          LET split == wf_splits[wf_i + 1] IN
          /\ wf_results' = Append(wf_results, WalkEntry(split, outcome))
          /\ IF outcome = "ok"
             THEN /\ wf_predictions' = wf_predictions \o WalkPredictions(split)
                  /\ wf_actuals' = wf_actuals \o WalkActuals(split)
             ELSE UNCHANGED <<wf_predictions, wf_actuals>>
          /\ wf_outcomes' = Append(wf_outcomes, outcome)
    /\ wf_i' = wf_i + 1
    /\ UNCHANGED <<wf_args, wf_pc, wf_splits, wf_ret>>

\* backtest after the loop: aggregate the pooled points and return
BacktestReturn ==
    /\ wf_pc = "loop"
    /\ wf_i = Len(wf_splits)
    /\ wf_pc' = "returned"
    /\ wf_ret' = [kind |-> "result",
                  total_splits |-> Len(wf_splits),
                  aggregated |-> (Len(wf_predictions) > 0 /\ Len(wf_actuals) > 0),
                  split_results |-> wf_results]
    /\ UNCHANGED <<wf_args, wf_splits, wf_i, wf_outcomes, wf_results,
                   wf_predictions, wf_actuals>>

----------------------------------------------------------------------------
(* ModelLoader: the in-memory model cache, used by concurrent threads *)

Threads == {"t1", "t2"}
NoThread == "none"

\* cache keys f"{model_type_upper}@{alias_or_version}"
Key(model_type, alias) == [model_type |-> model_type, alias |-> alias]
CacheKeys == {Key("LSTM", "champion"), Key("RNN", "champion"), Key("LSTM", "latest")}

\* model objects: an artifact loaded from the registry (id: its version), an
\* untrained LSTMModel/RNNModel built by get_model (id: the call that built
\* it), a trained model handed to cache_trained_model (id: the call)
NoModel == [kind |-> "none", id |-> 0]
RegistryModel(version) == [kind |-> "registry", id |-> version]
NewModel(callno) == [kind |-> "new", id |-> callno]
TrainedModel(callno) == [kind |-> "trained", id |-> callno]

\* the keys clear_cache(model_type, alias) removes
ClearScope(model_type, alias) ==
    IF model_type # "" /\ alias # ""
    THEN {k \in CacheKeys : k = Key(model_type, alias)}
    ELSE IF model_type # ""
    THEN {k \in CacheKeys : k.model_type = model_type}
    ELSE CacheKeys

ClearArgs ==
    {<<k.model_type, k.alias>> : k \in CacheKeys}
    \cup {<<"LSTM", "">>, <<"RNN", "">>, <<"", "">>}

\* models_to_preload of warmup: the default list and others
DefaultPreload == <<Key("LSTM", "champion"), Key("RNN", "champion")>>
PreloadLists == {DefaultPreload, <<Key("LSTM", "latest")>>, << >>}

\* ModelRegistry.get_model(model_name, alias_or_version): served from the
\* registry's own cache, else loaded from MLflow and kept in that cache;
\* None when there is nothing to load or the load raises
RegistryGetModel(regcache, backend, key, io_fails) ==
    IF regcache[key] # NoModel
    THEN [model |-> regcache[key], regcache |-> regcache, loaded |-> FALSE]
    ELSE IF backend[key] = 0 \/ io_fails
    THEN [model |-> NoModel, regcache |-> regcache, loaded |-> FALSE]
    ELSE [model |-> RegistryModel(backend[key]),
          regcache |-> [regcache EXCEPT ![key] = RegistryModel(backend[key])],
          loaded |-> TRUE]

\* a thread outside every call
IdleThread ==
    [op |-> "none", pc |-> "idle", key |-> Key("LSTM", "champion"),
     scope |-> {}, model |-> NoModel, meta |-> FALSE, fallback |-> FALSE,
     todo |-> << >>, ret |-> NoModel, raised |-> FALSE,
     \* for the properties: what the last returned put and the first returned
     \* get of the key were when the get began, whether a warmup had returned
     \* before this one began, registry loads and cache writes of the call
     expect |-> NoModel, after |-> NoModel, late |-> FALSE,
     loads |-> 0, writes |-> 0]

NoHist ==
    [stable |-> [k \in CacheKeys |-> NoModel],
     first |-> [k \in CacheKeys |-> NoModel],
     made |-> [k \in CacheKeys |-> 0],
     warmed |-> FALSE]

LoaderIdle ==
    /\ ld_cache = [k \in CacheKeys |-> NoModel]
    /\ ld_lock = NoThread
    /\ ld_warm = FALSE
    /\ ld_enabled = FALSE
    /\ ld_regcache = [k \in CacheKeys |-> NoModel]
    /\ ld_backend = [k \in CacheKeys |-> 0]
    /\ ld_thr = [t \in Threads |-> IdleThread]
    /\ ld_calls = MaxCalls
    /\ ld_hist = NoHist

\* ModelLoader.__init__ with the registry enabled or not, over any backend
LoaderInit ==
    /\ ld_cache = [k \in CacheKeys |-> NoModel]
    /\ ld_lock = NoThread
    /\ ld_warm = FALSE
    /\ ld_enabled \in BOOLEAN
    /\ ld_regcache = [k \in CacheKeys |-> NoModel]
    /\ ld_backend \in [CacheKeys -> 0 .. MaxArtifact]
    /\ ld_enabled = FALSE => ld_backend = [k \in CacheKeys |-> 0]
    /\ ld_thr = [t \in Threads |-> IdleThread]
    /\ ld_calls = 0
    /\ ld_hist = NoHist

InCall(th) == th.pc \notin {"idle", "done"}

\* a put or clear on the keys in scope begins: gets of those keys that are
\* under way are no longer bound to an earlier put or get
Interfered(thr, self, scope) ==
    [u \in Threads |->
        IF u # self /\ InCall(thr[u]) /\ thr[u].op \in {"get", "warmup"}
           /\ thr[u].key \in scope
        THEN [thr[u] EXCEPT !.expect = NoModel, !.after = NoModel]
        ELSE thr[u]]

ForgetKeys(hist, scope) ==
    [hist EXCEPT !.stable = [k \in CacheKeys |-> IF k \in scope THEN NoModel ELSE @[k]],
                 !.first = [k \in CacheKeys |-> IF k \in scope THEN NoModel ELSE @[k]],
                 !.made = [k \in CacheKeys |-> IF k \in scope THEN 0 ELSE @[k]]]

\* the thread's put, clear or warmup returns (its locals are gone)
Returned(th) ==
    [IdleThread EXCEPT !.op = th.op, !.pc = "done", !.late = th.late,
                       !.loads = th.loads, !.writes = th.writes]

\* the thread's get_model begins on key (a call of its own or one of
\* warmup's) with "if cache_key in self._model_cache", read without the lock
BeginGet(th, key, hist, cache) ==
    [th EXCEPT !.pc = IF cache[key] # NoModel THEN "g_read" ELSE "g_lock",
               !.key = key, !.scope = {},
               !.expect = hist.stable[key], !.after = hist.first[key]]

\* the thread's get_model returns model (or raises): the thread's next state.
\* Inside warmup the result is only logged, an exception is caught, and the
\* loop goes on to the next entry of models_to_preload.
EndGet(th, model, raised, hist, cache) ==
    IF th.op = "warmup"
    THEN IF th.todo = << >>
         THEN [Returned(th) EXCEPT !.pc = "w_finish"]
         ELSE [BeginGet(th, Head(th.todo), hist, cache) EXCEPT !.todo = Tail(th.todo)]
    ELSE [th EXCEPT !.pc = "done", !.ret = model, !.raised = raised,
                    !.fallback = FALSE, !.model = NoModel]

\* the history after a get_model of key returned model, built telling
\* whether the model was loaded from MLflow or constructed by this call
GetReturned(hist, key, model, built) ==
    [hist EXCEPT !.first[key] = IF @ = NoModel THEN model ELSE @,
                 !.made[key] = IF built THEN @ + 1 ELSE @]

\* the fallback at the end of get_model: a new untrained model, not cached
\* (th.model names the object this call would construct)
Fallback(th) ==
    IF th.fallback /\ th.key.model_type \in {"LSTM", "RNN"}
    THEN th.model
    ELSE NoModel

\* get_model(model_type, alias_or_version, fallback_to_new) is called and
\* checks the cache
InvokeGet(t) ==
    /\ ~InCall(ld_thr[t])
    /\ ld_calls < MaxCalls
    /\ \E key \in CacheKeys, fallback \in BOOLEAN :
          ld_thr' = [ld_thr EXCEPT ![t] =
                        [BeginGet(IdleThread, key, ld_hist, ld_cache) EXCEPT
                            !.op = "get", !.fallback = fallback,
                            !.model = NewModel(ld_calls + 1)]]
    /\ ld_calls' = ld_calls + 1
    /\ UNCHANGED <<ld_cache, ld_lock, ld_warm, ld_enabled, ld_regcache,
                   ld_backend, ld_hist>>

\* "return self._model_cache[cache_key]", without the lock: KeyError when the
\* key was removed since the check
GetFastRead(t) ==
    /\ ld_thr[t].pc = "g_read"
    /\ LET th == ld_thr[t]
           model == ld_cache[th.key]
       IN /\ ld_hist' = IF model = NoModel THEN ld_hist
                        ELSE GetReturned(ld_hist, th.key, model, FALSE)
          /\ ld_thr' = [ld_thr EXCEPT ![t] = EndGet(th, model, model = NoModel, ld_hist', ld_cache)]
    /\ UNCHANGED <<ld_cache, ld_lock, ld_warm, ld_enabled, ld_regcache,
                   ld_backend, ld_calls>>

\* get_model that takes the lock and loads without looking at the cache again
GetLocked_NoDoubleCheck(t) ==
    /\ ld_thr[t].pc = "g_lock"
    /\ ld_lock = NoThread
    /\ LET th == ld_thr[t] IN
       IF ld_enabled
       THEN /\ ld_lock' = t
            /\ ld_thr' = [ld_thr EXCEPT ![t].pc = "g_load"]
            /\ UNCHANGED ld_hist
       ELSE LET model == Fallback(th) IN
            /\ ld_hist' = GetReturned(ld_hist, th.key, model, model # NoModel)
            /\ ld_thr' = [ld_thr EXCEPT ![t] = EndGet(th, model, FALSE, ld_hist', ld_cache)]
            /\ UNCHANGED ld_lock
    /\ UNCHANGED <<ld_cache, ld_warm, ld_enabled, ld_regcache, ld_backend, ld_calls>>

\* "with self._lock" of get_model up to the registry call: the second check
\* of the cache; without a registry the fallback, and the lock is released
GetLocked(t) ==
    /\ ld_thr[t].pc = "g_lock"
    /\ ld_lock = NoThread
    /\ LET th == ld_thr[t] IN
       IF ld_cache[th.key] # NoModel
       THEN /\ ld_hist' = GetReturned(ld_hist, th.key, ld_cache[th.key], FALSE)
            /\ ld_thr' = [ld_thr EXCEPT ![t] =
                             EndGet(th, ld_cache[th.key], FALSE, ld_hist', ld_cache)]
            /\ UNCHANGED ld_lock
       ELSE IF ld_enabled
       THEN /\ ld_lock' = t
            /\ ld_thr' = [ld_thr EXCEPT ![t].pc = "g_load"]
            /\ UNCHANGED ld_hist
       ELSE LET model == Fallback(th) IN
            /\ ld_hist' = GetReturned(ld_hist, th.key, model, model # NoModel)
            /\ ld_thr' = [ld_thr EXCEPT ![t] = EndGet(th, model, FALSE, ld_hist', ld_cache)]
            /\ UNCHANGED ld_lock
    /\ UNCHANGED <<ld_cache, ld_warm, ld_enabled, ld_regcache, ld_backend, ld_calls>>

\* self._registry.get_model(...) returns inside the lock of get_model: a model
\* is cached and returned, otherwise the fallback; the lock is released
GetLoaded(t) ==
    /\ ld_thr[t].pc = "g_load"
    /\ ld_lock = t
    /\ \E io_fails \in BOOLEAN :
          LET th == ld_thr[t]
              got == RegistryGetModel(ld_regcache, ld_backend, th.key, io_fails)
              model == IF got.model # NoModel THEN got.model
                       ELSE Fallback(th)
              counted == [th EXCEPT
                             !.loads = IF got.loaded THEN @ + 1 ELSE @,
                             !.writes = IF got.model # NoModel THEN @ + 1 ELSE @]
          IN
          /\ ld_regcache' = got.regcache
          /\ ld_cache' = IF got.model # NoModel
                         THEN [ld_cache EXCEPT ![th.key] = got.model]
                         ELSE ld_cache
          /\ ld_hist' = GetReturned(ld_hist, th.key, model,
                                    got.loaded \/ (got.model = NoModel /\ model # NoModel))
          /\ ld_thr' = [ld_thr EXCEPT ![t] =
                           EndGet(counted, model, FALSE, ld_hist', ld_cache')]
    /\ ld_lock' = NoThread
    /\ UNCHANGED <<ld_warm, ld_enabled, ld_backend, ld_calls>>

\* the other threads that are inside a put or clear touching key
OtherWriters(thr, self, key) ==
    {u \in Threads \ {self} :
        InCall(thr[u]) /\ thr[u].op \in {"put", "clear"} /\ key \in thr[u].scope}

\* the history after the thread's cache_trained_model returned
PutReturned(hist, thr, self) ==
    LET th == thr[self] IN
    IF OtherWriters(thr, self, th.key) = {}
    THEN [hist EXCEPT !.stable[th.key] = th.model]
    ELSE hist

\* cache_trained_model(model, model_type, alias, metrics, params) is called
InvokePut(t) ==
    /\ ~InCall(ld_thr[t])
    /\ ld_calls < MaxCalls
    /\ \E key \in CacheKeys, meta \in BOOLEAN :
          /\ ld_thr' = [Interfered(ld_thr, t, {key}) EXCEPT ![t] =
                           [IdleThread EXCEPT
                               !.op = "put", !.pc = "p_lock", !.key = key,
                               !.scope = {key}, !.meta = meta,
                               !.model = TrainedModel(ld_calls + 1)]]
          /\ ld_hist' = ForgetKeys(ld_hist, {key})
    /\ ld_calls' = ld_calls + 1
    /\ UNCHANGED <<ld_cache, ld_lock, ld_warm, ld_enabled, ld_regcache, ld_backend>>

\* "with self._lock" of cache_trained_model up to the registry call: the
\* model is written to the cache; without metrics and params, or without a
\* registry, the lock is released and the call returns
PutLocked(t) ==
    /\ ld_thr[t].pc = "p_lock"
    /\ ld_lock = NoThread
    /\ LET th == ld_thr[t] IN
       /\ ld_cache' = [ld_cache EXCEPT ![th.key] = th.model]
       /\ IF ld_enabled /\ th.meta
          THEN /\ ld_lock' = t
               /\ ld_thr' = [ld_thr EXCEPT ![t].pc = "p_save", ![t].writes = @ + 1]
               /\ UNCHANGED ld_hist
          ELSE /\ ld_thr' = [ld_thr EXCEPT ![t] = Returned([th EXCEPT !.writes = @ + 1])]
               /\ ld_hist' = PutReturned(ld_hist, ld_thr, t)
               /\ UNCHANGED ld_lock
    /\ UNCHANGED <<ld_warm, ld_enabled, ld_regcache, ld_backend, ld_calls>>

\* self._registry.save_model(...) returns inside the lock of
\* cache_trained_model: the version it registered may have become the
\* champion of its model name; the lock is released and the call returns
PutSaved(t) ==
    /\ ld_thr[t].pc = "p_save"
    /\ ld_lock = t
    /\ \E promoted \in BOOLEAN :
          LET champion == Key(ld_thr[t].key.model_type, "champion") IN
          ld_backend' = IF promoted /\ ld_backend[champion] < MaxArtifact
                        THEN [ld_backend EXCEPT ![champion] = @ + 1]
                        ELSE ld_backend
    /\ ld_lock' = NoThread
    /\ ld_thr' = [ld_thr EXCEPT ![t] = Returned(ld_thr[t])]
    /\ ld_hist' = PutReturned(ld_hist, ld_thr, t)
    /\ UNCHANGED <<ld_cache, ld_warm, ld_enabled, ld_regcache, ld_calls>>

\* clear_cache(model_type, alias) is called
InvokeClear(t) ==
    /\ ~InCall(ld_thr[t])
    /\ ld_calls < MaxCalls
    /\ \E args \in ClearArgs :
          LET scope == ClearScope(args[1], args[2]) IN
          /\ ld_thr' = [Interfered(ld_thr, t, scope) EXCEPT ![t] =
                           [IdleThread EXCEPT
                               !.op = "clear", !.pc = "c_lock", !.scope = scope]]
          /\ ld_hist' = ForgetKeys(ld_hist, scope)
    /\ ld_calls' = ld_calls + 1
    /\ UNCHANGED <<ld_cache, ld_lock, ld_warm, ld_enabled, ld_regcache, ld_backend>>

\* the body of clear_cache, all of it inside the lock
ClearLocked(t) ==
    /\ ld_thr[t].pc = "c_lock"
    /\ ld_lock = NoThread
    /\ ld_cache' = [k \in CacheKeys |->
                       IF k \in ld_thr[t].scope THEN NoModel ELSE ld_cache[k]]
    /\ ld_thr' = [ld_thr EXCEPT ![t] = Returned(ld_thr[t])]
    /\ UNCHANGED <<ld_lock, ld_warm, ld_enabled, ld_regcache, ld_backend,
                   ld_calls, ld_hist>>

\* warmup(models_to_preload) is called: "if self._warmup_complete: return",
\* else the loop begins
InvokeWarmup(t) ==
    /\ ~InCall(ld_thr[t])
    /\ ld_calls < MaxCalls
    /\ \E models_to_preload \in PreloadLists :
          LET th == [IdleThread EXCEPT !.op = "warmup", !.late = ld_hist.warmed,
                                       !.todo = models_to_preload]
          IN
          IF ld_warm
          THEN /\ ld_thr' = [ld_thr EXCEPT ![t] = Returned(th)]
               /\ ld_hist' = [ld_hist EXCEPT !.warmed = TRUE]
          ELSE /\ ld_thr' = [ld_thr EXCEPT ![t] =
                                EndGet(th, NoModel, FALSE, ld_hist, ld_cache)]
               /\ UNCHANGED ld_hist
    /\ ld_calls' = ld_calls + 1
    /\ UNCHANGED <<ld_cache, ld_lock, ld_warm, ld_enabled, ld_regcache, ld_backend>>

\* a warmup that returns without recording that it ran
WarmupFinish_FlagNotSet(t) ==
    /\ ld_thr[t].pc = "w_finish"
    /\ ld_thr' = [ld_thr EXCEPT ![t] = Returned(ld_thr[t])]
    /\ ld_hist' = [ld_hist EXCEPT !.warmed = TRUE]
    /\ UNCHANGED <<ld_cache, ld_lock, ld_warm, ld_enabled, ld_regcache,
                   ld_backend, ld_calls>>

\* "self._warmup_complete = True" after the loop, and warmup returns
WarmupFinish(t) ==
    /\ ld_thr[t].pc = "w_finish"
    /\ ld_warm' = TRUE
    /\ ld_thr' = [ld_thr EXCEPT ![t] = Returned(ld_thr[t])]
    /\ ld_hist' = [ld_hist EXCEPT !.warmed = TRUE]
    /\ UNCHANGED <<ld_cache, ld_lock, ld_enabled, ld_regcache, ld_backend, ld_calls>>

----------------------------------------------------------------------------
(* ModelLoader.refresh_model: hot-swap after a promotion *)

\* a new version of the model name of key becomes Champion in the registry,
\* between two calls of the loader
Promote ==
    /\ \A t \in Threads : ~InCall(ld_thr[t])
    /\ \E key \in {k \in CacheKeys : k.alias = "champion"} :
          /\ ld_enabled
          /\ ld_backend[key] < MaxPromoted
          /\ ld_backend' = [ld_backend EXCEPT ![key] = @ + 1]
    /\ UNCHANGED <<ld_cache, ld_lock, ld_warm, ld_enabled, ld_regcache, ld_thr,
                   ld_calls, ld_hist>>

\* refresh_model(model_type, alias) is called
InvokeRefresh(t) ==
    /\ ~InCall(ld_thr[t])
    /\ ld_calls < MaxCalls
    /\ \E key \in CacheKeys :
          /\ ld_thr' = [Interfered(ld_thr, t, {key}) EXCEPT ![t] =
                           [IdleThread EXCEPT
                               !.op = "refresh", !.pc = "r_clear", !.key = key,
                               !.scope = {key}]]
          /\ ld_hist' = ForgetKeys(ld_hist, {key})
    /\ ld_calls' = ld_calls + 1
    /\ UNCHANGED <<ld_cache, ld_lock, ld_warm, ld_enabled, ld_regcache, ld_backend>>

\* self.clear_cache(model_type_upper, alias) of refresh_model, inside the lock
RefreshCleared(t) ==
    /\ ld_thr[t].pc = "r_clear"
    /\ ld_lock = NoThread
    /\ ld_cache' = [ld_cache EXCEPT ![ld_thr[t].key] = NoModel]
    /\ ld_thr' = [ld_thr EXCEPT ![t].pc = "r_get"]
    /\ UNCHANGED <<ld_lock, ld_warm, ld_enabled, ld_regcache, ld_backend,
                   ld_calls, ld_hist>>

\* self.get_model(model_type_upper, alias, fallback_to_new=False) of
\* refresh_model begins with its check of the cache; the call is to return
\* the version that is Champion now
RefreshGet(t) ==
    /\ ld_thr[t].pc = "r_get"
    /\ ld_thr' = [ld_thr EXCEPT ![t] =
                     [BeginGet(ld_thr[t], ld_thr[t].key, ld_hist, ld_cache) EXCEPT
                         !.expect = RegistryModel(ld_backend[ld_thr[t].key]),
                         !.after = NoModel]]
    /\ UNCHANGED <<ld_cache, ld_lock, ld_warm, ld_enabled, ld_regcache,
                   ld_backend, ld_calls, ld_hist>>

----------------------------------------------------------------------------
(* PredictionService.predict: what happens to the model it trains *)

\* the request's model_type; whether PatchTSTModel can be constructed;
\* settings.MLFLOW_ENABLED; whether __init__ obtained a model loader and a
\* registry; whether data preparation and training succeed; whether
\* ml.safe_promotion imports and get_promoter() returns (the module names
\* typing.Tuple in an annotation without importing it, which interpreters
\* that evaluate annotations at definition time reject)
PredictInputs ==
    {i \in [model_type : {"LSTM", "RNN", "PATCHTST"},
            patchtst_available : BOOLEAN,
            mlflow_enabled : BOOLEAN,
            has_loader : BOOLEAN,
            has_registry : BOOLEAN,
            train_ok : BOOLEAN,
            promoter_available : BOOLEAN] :
        i.has_registry => i.mlflow_enabled}

PredictIdle ==
    /\ pr_in = [model_type |-> "LSTM", patchtst_available |-> FALSE,
                mlflow_enabled |-> FALSE, has_loader |-> FALSE,
                has_registry |-> FALSE, train_ok |-> FALSE,
                promoter_available |-> FALSE]
    /\ pr_pc = "idle"
    /\ pr_type = "LSTM"
    /\ pr_events = << >>
    /\ pr_cached = {}

\* a request arrives at a constructed PredictionService
PredictInit ==
    /\ pr_in \in PredictInputs
    /\ pr_pc = "start"
    /\ pr_type = pr_in.model_type
    /\ pr_events = << >>
    /\ pr_cached = {}

\* predict up to the end of training: the model is chosen (PatchTST falls
\* back to LSTM when it cannot be constructed; for LSTM/RNN the loader is
\* asked for the champion), trained and scored; an exception leaves predict
PredictTrain ==
    /\ pr_pc = "start"
    /\ LET t == IF pr_in.model_type = "PATCHTST" /\ ~pr_in.patchtst_available
                THEN "LSTM" ELSE pr_in.model_type
           asked == IF t \in {"LSTM", "RNN"} /\ pr_in.has_loader
                    THEN <<"get_champion">> ELSE << >>
       IN /\ pr_type' = t
          /\ IF pr_in.train_ok
             THEN /\ pr_events' = pr_events \o asked \o <<"train">>
                  /\ pr_pc' = "trained"
             ELSE /\ pr_events' = pr_events \o asked
                  /\ pr_pc' = "raised"
    /\ UNCHANGED <<pr_in, pr_cached>>

\* model_loader.cache_trained_model(model, model_type_upper, alias="latest", ...)
CacheLatest ==
    /\ pr_events' = Append(pr_events, "cache_latest")
    /\ pr_cached' = pr_cached \cup {Key(pr_type, "latest")}

\* the block "Cache trained model and optionally save to registry with safe
\* promotion" up to the promoter call, or all of it on the other branches
PredictPersist ==
    /\ pr_pc = "trained"
    /\ IF ~(pr_in.has_loader \/ (pr_in.has_registry /\ pr_in.mlflow_enabled))
       THEN /\ pr_pc' = "persisted"
            /\ UNCHANGED <<pr_events, pr_cached>>
       ELSE IF pr_in.mlflow_enabled /\ pr_type \in {"LSTM", "RNN"}
       THEN IF pr_in.promoter_available
            THEN /\ pr_pc' = "promoting"
                 /\ pr_events' = Append(pr_events, "evaluate_and_promote")
                 /\ UNCHANGED pr_cached
            ELSE \* except: "Safe promotion check failed, using standard caching"
                 /\ pr_pc' = "persisted"
                 /\ IF pr_in.has_loader THEN CacheLatest
                    ELSE UNCHANGED <<pr_events, pr_cached>>
       ELSE IF pr_in.mlflow_enabled /\ pr_type = "PATCHTST"
       THEN /\ pr_pc' = "persisted"
            \* self.registry.save_model(...); a failure is logged
            /\ pr_events' = Append(pr_events, "registry_save")
            /\ UNCHANGED pr_cached
       ELSE /\ pr_pc' = "persisted"
            /\ IF pr_in.has_loader THEN CacheLatest
               ELSE UNCHANGED <<pr_events, pr_cached>>
    /\ UNCHANGED <<pr_in, pr_type>>

\* "await promoter.evaluate_and_promote(...)" returns its result dict (it
\* catches every exception itself); the result is logged
PredictPromoted ==
    /\ pr_pc = "promoting"
    /\ pr_pc' = "persisted"
    /\ UNCHANGED <<pr_in, pr_type, pr_events, pr_cached>>

\* the rest of predict: the predictions are rescaled and returned
PredictReturn ==
    /\ pr_pc = "persisted"
    /\ pr_pc' = "returned"
    /\ UNCHANGED <<pr_in, pr_type, pr_events, pr_cached>>

----------------------------------------------------------------------------
(* ConformalPrediction: calibration, intervals and the coverage history *)

\* "if len(self.coverage_history) > 100" keeps coverage_history[-100:]
HistoryCap == 100
\* coverage_history[-10:] is averaged once 10 observations exist
RecentWindow == 10

\* exact fractions n/d, d > 0
Frac(n, d) == [n |-> n, d |-> d]
FracLess(a, b) == a.n * b.d < b.n * a.d

\* self.quantile: None until calibrate has set it
NoQuantile == [set |-> FALSE, n |-> 0, d |-> 1]

\* the seq with x inserted before the first element larger than x
RECURSIVE Insert(_, _)
Insert(x, seq) ==
    IF seq = << >> THEN <<x>>
    ELSE IF x <= Head(seq) THEN <<x>> \o seq
    ELSE <<Head(seq)>> \o Insert(x, Tail(seq))

\* the elements of seq in increasing order
RECURSIVE Sorted(_)
Sorted(seq) ==
    IF seq = << >> THEN << >> ELSE Insert(Head(seq), Sorted(Tail(seq)))

\* scores = np.abs(predictions - actuals), given the differences
Scores(residuals) == [i \in 1 .. Len(residuals) |-> Abs(residuals[i])]

\* quantile_level = min((1 + n) * (1 - alpha) / n, 1.0) for n >= 1 scores
QuantileLevel(n, alpha) ==
    LET level == Frac((1 + n) * (alpha.d - alpha.n), n * alpha.d)
    IN IF FracLess(Frac(1, 1), level) THEN Frac(1, 1) ELSE level

\* np.quantile(scores, level), linear interpolation between the order
\* statistics around position level * (n - 1)
NpQuantile(scores, level) ==
    LET s == Sorted(scores)
        n == Len(s)
        pos == level.n * (n - 1)
        lo == pos \div level.d
        hi == Min(lo + 1, n - 1)
        rest == pos % level.d
    IN [set |-> TRUE, n |-> s[lo + 1] * level.d + rest * (s[hi + 1] - s[lo + 1]),
        d |-> level.d]

\* the sum of the observations in a piece of coverage_history
RECURSIVE SumCoverage(_)
SumCoverage(seq) ==
    IF seq = << >> THEN Frac(0, 1)
    ELSE LET a == Head(seq).cov
             b == SumCoverage(Tail(seq))
         IN Frac(a.n * b.d + b.n * a.d, a.d * b.d)

\* np.mean(self.coverage_history[-10:])
RecentMean(history) ==
    LET recent == SubSeq(history, Len(history) - RecentWindow + 1, Len(history))
        total == SumCoverage(recent)
    IN Frac(total.n, total.d * RecentWindow)

\* width_multiplier of predict_with_intervals, in hundredths
WidthMultiplier(adaptive, history, coverage) ==
    IF adaptive /\ Len(history) > 0
    THEN LET recent_coverage == IF Len(history) >= RecentWindow
                                THEN RecentMean(history) ELSE coverage
         IN IF FracLess(recent_coverage, coverage) THEN 110
            ELSE IF FracLess(coverage, recent_coverage) THEN 95
            ELSE 100
    ELSE 100

\* interval_width = self.quantile * width_multiplier
IntervalWidth(quantile, adaptive, history, coverage) ==
    Frac(quantile.n * WidthMultiplier(adaptive, history, coverage), quantile.d * 100)

\* np.mean(covered) for a batch given by the distances |actual - prediction|:
\* actual >= lower and actual <= upper exactly when the distance is at most
\* the interval width
ObservedCoverage(distances, width) ==
    Frac(Cardinality({i \in 1 .. Len(distances) : distances[i] * width.d <= width.n}),
         Len(distances))

\* target coverage levels offered to the constructor
CoverageTargets == {Frac(9, 10), Frac(3, 5), Frac(1, 2)}

\* calibration sets (predictions - actuals) and monitored batches
\* (|actual - prediction| of each point)
CalibrationSets ==
    {<< >>, <<10>>, <<-20, 10>>, <<10, -20>>, <<10, 10, 40>>}
Batches == {<<10>>, <<11>>, <<10, 30>>, <<25, 0>>}

\* arguments of predict_with_intervals: predictions and adaptive_alpha
PredictionArgs == {<< >>, <<100, 101>>}
AdaptiveAlphaArgs == {"None", "0.2"}

NoConformalCall ==
    [op |-> "none", raised |-> FALSE, interval |-> FALSE, width |-> Frac(0, 1),
     pre_quantile |-> NoQuantile, pre_history |-> << >>,
     post_quantile |-> NoQuantile, post_history |-> << >>]

ConformalIdle ==
    /\ cf_coverage = Frac(9, 10)
    /\ cf_alpha = Frac(1, 10)
    /\ cf_adaptive = TRUE
    /\ cf_scores = << >>
    /\ cf_quantile = NoQuantile
    /\ cf_history = << >>
    /\ cf_batch = << >>
    /\ cf_updates = 0
    /\ cf_last = NoConformalCall

\* ConformalPrediction(coverage, alpha, adaptive), and the batch a run's
\* monitoring feeds to update_coverage
ConformalInit ==
    /\ cf_coverage \in CoverageTargets
    /\ cf_alpha \in {Frac(cf_coverage.d - cf_coverage.n, cf_coverage.d), Frac(1, 2)}
    /\ cf_adaptive \in BOOLEAN
    /\ cf_scores = << >>
    /\ cf_quantile = NoQuantile
    /\ cf_history = << >>
    /\ cf_batch \in Batches
    /\ cf_updates = 0
    /\ cf_last = NoConformalCall

\* calibrate(predictions, actuals), until one calibration of a run succeeds;
\* an empty calibration set divides by zero after calibration_scores has
\* been replaced
Calibrate ==
    /\ ~cf_quantile.set
    /\ \E residuals \in CalibrationSets :
          LET scores == Scores(residuals) IN
          /\ cf_scores' = scores
          /\ IF Len(scores) = 0
             THEN /\ cf_quantile' = cf_quantile
                  /\ cf_last' = [NoConformalCall EXCEPT !.op = "calibrate",
                                                       !.raised = TRUE]
             ELSE /\ cf_quantile' = NpQuantile(scores, QuantileLevel(Len(scores), cf_alpha))
                  /\ cf_last' = [NoConformalCall EXCEPT !.op = "calibrate",
                                                       !.post_quantile = cf_quantile']
    /\ UNCHANGED <<cf_coverage, cf_alpha, cf_adaptive, cf_history, cf_batch, cf_updates>>

\* predict_with_intervals that answers an uncalibrated wrapper with
\* intervals of width zero
PredictWithIntervals_SilentDefault ==
    /\ \E predictions \in PredictionArgs, adaptive_alpha \in AdaptiveAlphaArgs :
          cf_last' = [op |-> "predict_with_intervals", raised |-> FALSE,
                      interval |-> TRUE,
                      width |-> IF cf_quantile.set
                                THEN IntervalWidth(cf_quantile, cf_adaptive,
                                                   cf_history, cf_coverage)
                                ELSE Frac(0, 1),
                      pre_quantile |-> cf_quantile, pre_history |-> cf_history,
                      post_quantile |-> cf_quantile, post_history |-> cf_history]
    /\ UNCHANGED <<cf_coverage, cf_alpha, cf_adaptive, cf_scores, cf_quantile,
                   cf_history, cf_batch, cf_updates>>

\* predict_with_intervals(predictions, adaptive_alpha)
PredictWithIntervals ==
    /\ \E predictions \in PredictionArgs, adaptive_alpha \in AdaptiveAlphaArgs :
          cf_last' = IF ~cf_quantile.set
                     THEN [op |-> "predict_with_intervals", raised |-> TRUE,
                           interval |-> FALSE, width |-> Frac(0, 1),
                           pre_quantile |-> cf_quantile, pre_history |-> cf_history,
                           post_quantile |-> cf_quantile, post_history |-> cf_history]
                     ELSE [op |-> "predict_with_intervals", raised |-> FALSE,
                           interval |-> TRUE,
                           width |-> IntervalWidth(cf_quantile, cf_adaptive,
                                                   cf_history, cf_coverage),
                           pre_quantile |-> cf_quantile, pre_history |-> cf_history,
                           post_quantile |-> cf_quantile, post_history |-> cf_history]
    /\ UNCHANGED <<cf_coverage, cf_alpha, cf_adaptive, cf_scores, cf_quantile,
                   cf_history, cf_batch, cf_updates>>

\* update_coverage that keeps the first 100 observations
UpdateCoverage_KeepsOldest ==
    /\ cf_updates < MaxUpdates
    /\ cf_adaptive /\ cf_quantile.set
    /\ LET width == IntervalWidth(cf_quantile, cf_adaptive, cf_history, cf_coverage)
           coverage == ObservedCoverage(cf_batch, width)
           appended == Append(cf_history, [n |-> cf_updates + 1, cov |-> coverage])
       IN /\ cf_history' = IF Len(appended) > HistoryCap
                           THEN SubSeq(appended, 1, HistoryCap)
                           ELSE appended
          /\ cf_last' = [NoConformalCall EXCEPT !.op = "update_coverage",
                                                !.interval = TRUE,
                                                !.width = width]
    /\ cf_updates' = cf_updates + 1
    /\ UNCHANGED <<cf_coverage, cf_alpha, cf_adaptive, cf_scores, cf_quantile, cf_batch>>

\* update_coverage(predictions, actuals): nothing without adaptive; the
\* error of predict_with_intervals on an uncalibrated wrapper; else the
\* observed coverage of the batch is appended and the history is cut to its
\* last 100 entries
UpdateCoverage ==
    /\ cf_updates < MaxUpdates
    /\ IF ~cf_adaptive
       THEN /\ cf_last' = [NoConformalCall EXCEPT !.op = "update_coverage"]
            /\ UNCHANGED cf_history
       ELSE IF ~cf_quantile.set
       THEN /\ cf_last' = [NoConformalCall EXCEPT !.op = "update_coverage",
                                                  !.raised = TRUE]
            /\ UNCHANGED cf_history
       ELSE LET width == IntervalWidth(cf_quantile, cf_adaptive, cf_history, cf_coverage)
                coverage == ObservedCoverage(cf_batch, width)
                appended == Append(cf_history, [n |-> cf_updates + 1, cov |-> coverage])
            IN /\ cf_history' = IF Len(appended) > HistoryCap
                                THEN SubSeq(appended, Len(appended) - HistoryCap + 1,
                                            Len(appended))
                                ELSE appended
               /\ cf_last' = [NoConformalCall EXCEPT !.op = "update_coverage",
                                                     !.interval = TRUE,
                                                     !.width = width]
    /\ cf_updates' = IF cf_adaptive /\ cf_quantile.set THEN cf_updates + 1 ELSE cf_updates
    /\ UNCHANGED <<cf_coverage, cf_alpha, cf_adaptive, cf_scores, cf_quantile, cf_batch>>

----------------------------------------------------------------------------
(* AutoLearningBrain.suggest_hyperparameters *)

\* the keys of suggestions in the order the dict holds them. Values are kept
\* in tenths of a unit: units, epochs and batch_size in tenths, learning_rate
\* in tenths of 1e-4, dropout in tenths of 1e-2
HyperKeys == <<"units", "epochs", "batch_size", "learning_rate", "dropout">>
KeyPos(key) == CHOOSE i \in 1 .. Len(HyperKeys) : HyperKeys[i] = key

\* the base suggestions adjusted to data_size
BaseSuggestions(data_size) ==
    [units |-> 500,
     epochs |-> IF data_size < 100 THEN 100 ELSE IF data_size > 1000 THEN 300 ELSE 200,
     batch_size |-> IF data_size < 100 THEN 160 ELSE IF data_size > 1000 THEN 640 ELSE 320,
     learning_rate |-> 100,
     dropout |-> 200]

\* the optimizer stage: study.ask() and the five trial.suggest_* calls, each
\* result assigned as it arrives; fail names the call that raises
OptunaStage(s, enabled, fail, trial) ==
    [k \in DOMAIN s |->
        IF enabled /\ (fail = "none" \/ (fail # "ask" /\ KeyPos(k) < KeyPos(fail)))
        THEN trial[k] ELSE s[k]]

\* a value found in a run record
NumVal(v) == [k |-> "num", v |-> v]
StrVal == [k |-> "str", v |-> 0]
Absent == [k |-> "absent", v |-> 0]

\* _get_best_previous_run over runs[i..]: the matching run of lowest rmse;
\* a run without rmse counts as infinite and is never below the best so far
RECURSIVE BestPreviousRun(_, _, _, _)
BestPreviousRun(model_type, runs, i, best) ==
    IF i > Len(runs) THEN [raised |-> FALSE, best |-> best]
    ELSE LET run == runs[i] IN
         IF ~run.dict THEN [raised |-> TRUE, best |-> best]
         ELSE IF run.model_type # model_type
         THEN BestPreviousRun(model_type, runs, i + 1, best)
         ELSE IF run.rmse.k = "str" THEN [raised |-> TRUE, best |-> best]
         ELSE IF run.rmse.k = "num" /\ (best = 0 \/ run.rmse.v < runs[best].rmse.v)
         THEN BestPreviousRun(model_type, runs, i + 1, i)
         ELSE BestPreviousRun(model_type, runs, i + 1, best)

\* the blending loop over the keys of suggestions from position i on:
\* suggestions[key] = 0.7 * best_run["params"][key] + 0.3 * suggestions[key]
RECURSIVE BlendLoop(_, _, _)
BlendLoop(s, params, i) ==
    IF i > Len(HyperKeys) THEN [raised |-> FALSE, s |-> s]
    ELSE LET key == HyperKeys[i] IN
         IF params[key].k = "absent" THEN BlendLoop(s, params, i + 1)
         ELSE IF params[key].k = "str" THEN [raised |-> TRUE, s |-> s]
         ELSE BlendLoop([s EXCEPT ![key] = (7 * params[key].v + 3 * s[key]) \div 10],
                        params, i + 1)

\* the stage that learns from previous runs, inside its try
BlendStage(s, model_type, runs, mlflow_enabled) ==
    IF Len(runs) = 0 \/ ~mlflow_enabled THEN [ran |-> FALSE, raised |-> FALSE, s |-> s]
    ELSE LET found == BestPreviousRun(model_type, runs, 1, 0) IN
         IF found.raised THEN [ran |-> TRUE, raised |-> TRUE, s |-> s]
         ELSE IF found.best = 0 THEN [ran |-> TRUE, raised |-> FALSE, s |-> s]
         ELSE LET best_run == runs[found.best] IN
              IF best_run.params.k = "missing" THEN [ran |-> TRUE, raised |-> FALSE, s |-> s]
              ELSE IF best_run.params.k = "None" THEN [ran |-> TRUE, raised |-> TRUE, s |-> s]
              ELSE [ran |-> TRUE] @@ BlendLoop(s, best_run.params.vals, 1)

\* suggest_hyperparameters(model_type, data_size, previous_runs)
suggest_hyperparameters(in) ==
    LET defaults == BaseSuggestions(in.data_size)
        optimized == OptunaStage(defaults, in.optuna_enabled, in.fail, in.trial)
        blended == BlendStage(optimized, in.model_type, in.previous_runs, in.mlflow_enabled)
    IN [raised |-> FALSE, ret |-> blended.s, defaults |-> defaults,
        optimized |-> optimized,
        optimizer_failed |-> in.optuna_enabled /\ in.fail # "none",
        blend_failed |-> blended.raised]

\* run records: well-formed ones and malformed ones
NoParams == [k \in {"units", "epochs", "batch_size", "learning_rate", "dropout"} |-> Absent]
Run(model_type, rmse, kind, vals) ==
    [dict |-> TRUE, model_type |-> model_type, rmse |-> rmse,
     params |-> [k |-> kind, vals |-> vals]]
GoodRun(model_type, rmse) ==
    Run(model_type, NumVal(rmse), "dict",
        [units |-> NumVal(1000), epochs |-> NumVal(400), batch_size |-> NumVal(600),
         learning_rate |-> NumVal(10), dropout |-> NumVal(300)])
PreviousRuns ==
    [good |-> GoodRun("LSTM", 5),
     other |-> GoodRun("RNN", 1),
     negative |-> Run("LSTM", NumVal(3), "dict", [NoParams EXCEPT !.epochs = NumVal(-1000)]),
     text |-> Run("LSTM", NumVal(2), "dict",
                  [NoParams EXCEPT !.units = NumVal(1000), !.epochs = StrVal]),
     notdict |-> [Run("LSTM", Absent, "missing", NoParams) EXCEPT !.dict = FALSE],
     noparams |-> Run("LSTM", NumVal(4), "missing", NoParams),
     nullparams |-> Run("LSTM", NumVal(4), "None", NoParams),
     textrmse |-> Run("LSTM", StrVal, "dict", NoParams),
     normse |-> Run("LSTM", Absent, "dict", [NoParams EXCEPT !.units = NumVal(1000)])]

\* previous_runs: None or [] (the empty list here), one run, or two
PreviousRunLists ==
    {<< >>} \cup {<<PreviousRuns[a]>> : a \in DOMAIN PreviousRuns}
        \cup {<<PreviousRuns.good, PreviousRuns[a]>> : a \in {"other", "notdict", "text"}}
        \cup {<<PreviousRuns.text, PreviousRuns.good>>}

NoSuggestion ==
    [raised |-> FALSE, ret |-> << >>, defaults |-> << >>, optimized |-> << >>,
     optimizer_failed |-> FALSE, blend_failed |-> FALSE]

SuggestIdle ==
    /\ sg_in = [model_type |-> "LSTM", data_size |-> 0, previous_runs |-> << >>,
                optuna_enabled |-> FALSE, mlflow_enabled |-> FALSE, fail |-> "none",
                trial |-> BaseSuggestions(0)]
    /\ sg_out = NoSuggestion

\* every call: model types, data sizes around the tiers, run lists, the
\* brain with and without optimizer study and MLflow, the trial failing at
\* any of its calls
SuggestInit ==
    /\ sg_in \in [model_type : {"LSTM", "RNN"},
                  data_size : {50, 100, 1000, 2000},
                  previous_runs : PreviousRunLists,
                  optuna_enabled : BOOLEAN,
                  mlflow_enabled : BOOLEAN,
                  fail : {"none", "ask", "units", "epochs", "batch_size",
                          "learning_rate", "dropout"},
                  trial : {[units |-> 640, epochs |-> 250, batch_size |-> 480,
                            learning_rate |-> 50, dropout |-> 100]}]
    /\ sg_in.optuna_enabled \/ sg_in.fail = "none"
    /\ sg_out = NoSuggestion

SuggestHyperparameters ==
    /\ sg_out = NoSuggestion
    /\ sg_out' = suggest_hyperparameters(sg_in)
    /\ UNCHANGED sg_in

----------------------------------------------------------------------------
(* WalkForwardBacktester.split_data, step by step *)

\* the strategies the constructor accepts
Strategies == {"rolling", "expanding"}

\* every backtester the constructor accepts on the small series: it checks
\* the strategy only, so step_size may be zero or negative
SplitArgs ==
    [n : 0 .. MaxWalkLen, train_size : 1 .. MaxWalkTrain,
     test_size : 1 .. MaxTest, step_size : -1 .. MaxStep]

SplitIdle ==
    /\ sp_args = [n |-> 0, train_size |-> 1, test_size |-> 1, step_size |-> 1]
    /\ sp_pc = [b \in Strategies |-> "idle"]
    /\ sp_start = [b \in Strategies |-> 0]
    /\ sp_splits = [b \in Strategies |-> << >>]
    /\ sp_passes = [b \in Strategies |-> 0]

SplitInit ==
    /\ sp_args \in SplitArgs
    /\ sp_pc = [b \in Strategies |-> "start"]
    /\ sp_start = [b \in Strategies |-> 0]
    /\ sp_splits = [b \in Strategies |-> << >>]
    /\ sp_passes = [b \in Strategies |-> 0]

\* the passes of the loop after one more: counted up to MaxSplits, beyond
\* that only as odd or even
Passes(k) == IF k <= MaxSplits THEN k + 1 ELSE MaxSplits

\* start_idx as the model follows it: every value below -MaxSplits satisfies
\* the loop condition as -MaxSplits does
Followed(start_idx) == IF start_idx < -MaxSplits THEN -MaxSplits ELSE start_idx

\* splits.append(split_info), the model keeping the first MaxSplits splits
Appended(splits, split_info) ==
    IF Len(splits) < MaxSplits THEN Append(splits, split_info) ELSE splits

\* split_data up to the loop: the early return on a series shorter than
\* train_size + test_size
SplitBegin(b) ==
    /\ sp_pc[b] = "start"
    /\ sp_pc' = [sp_pc EXCEPT ![b] = IF sp_args.n < sp_args.train_size + sp_args.test_size
                                     THEN "returned" ELSE "loop"]
    /\ UNCHANGED <<sp_args, sp_start, sp_splits, sp_passes>>

\* an iteration whose expanding branch keeps the start of the training
\* window at 0, so that the window grows
SplitIteration_ExpandingGrows(b) ==
    /\ sp_pc[b] = "loop"
    /\ LET train_end == sp_start[b] + sp_args.train_size
           test_end == Min(train_end + sp_args.test_size, sp_args.n)
           split_info == [train_start |-> IF b = "rolling" THEN sp_start[b] ELSE 0,
                          train_end |-> train_end,
                          test_start |-> train_end, test_end |-> test_end,
                          split_number |-> Len(sp_splits[b]) + 1]
           next_idx == sp_start[b] + sp_args.step_size
       IN /\ sp_splits' = [sp_splits EXCEPT ![b] = Appended(@, split_info)]
          /\ sp_start' = [sp_start EXCEPT ![b] = Followed(next_idx)]
          /\ sp_passes' = [sp_passes EXCEPT ![b] = Passes(@)]
          /\ sp_pc' = [sp_pc EXCEPT ![b] =
                          IF next_idx + sp_args.train_size + sp_args.test_size > sp_args.n
                          THEN "returned" ELSE "loop"]
    /\ UNCHANGED sp_args

\* one pass of the while loop: the condition, the split appended, start_idx
\* moved as the strategy says, and the break when no full split is left
SplitIteration(b) ==
    /\ sp_pc[b] = "loop"
    /\ IF sp_start[b] + sp_args.train_size + sp_args.test_size <= sp_args.n
       THEN LET train_end == sp_start[b] + sp_args.train_size
                test_end == Min(train_end + sp_args.test_size, sp_args.n)
                split_info == [train_start |-> sp_start[b], train_end |-> train_end,
                               test_start |-> train_end, test_end |-> test_end,
                               split_number |-> Len(sp_splits[b]) + 1]
                next_idx == IF b = "rolling"
                            THEN sp_start[b] + sp_args.step_size
                            ELSE sp_start[b] + sp_args.step_size
            IN /\ sp_splits' = [sp_splits EXCEPT ![b] = Appended(@, split_info)]
               /\ sp_start' = [sp_start EXCEPT ![b] = Followed(next_idx)]
               /\ sp_passes' = [sp_passes EXCEPT ![b] = Passes(@)]
               /\ sp_pc' = [sp_pc EXCEPT ![b] =
                               IF next_idx + sp_args.train_size + sp_args.test_size
                                     > sp_args.n
                               THEN "returned" ELSE "loop"]
       ELSE /\ sp_pc' = [sp_pc EXCEPT ![b] = "returned"]
            /\ UNCHANGED <<sp_start, sp_splits, sp_passes>>
    /\ UNCHANGED sp_args

----------------------------------------------------------------------------
(* PredictionService: the sequence length of the shared service *)

\* settings.SEQUENCE_LENGTH
SEQUENCE_LENGTH == 60

\* sequence_length arguments of predict: None (here 0) or a custom value
NoLength == 0
CustomLengths == {10, 30, 120}

\* len(historical_data) the stock service returns
HistoryLengths == {0, 50, 100, 200}

NoRequest == [op |-> "none", custom |-> NoLength, used |-> 0, outcome |-> "none"]

ServiceIdle ==
    /\ sv_sequence_length = SEQUENCE_LENGTH
    /\ sv_requests = MaxRequests
    /\ sv_last = NoRequest

\* PredictionService.__init__, run once when the routes module is imported
ServiceInit ==
    /\ sv_sequence_length = SEQUENCE_LENGTH
    /\ sv_requests = 0
    /\ sv_last = NoRequest

\* predict(ticker, model_type, period, prediction_days, ..., sequence_length)
\* as far as self.sequence_length goes: overridden when the argument is
\* given, read by every later line, the call raising on too short a history
\* or at a later failure, else returning
ServicePredict ==
    /\ sv_requests < MaxRequests
    /\ \E sequence_length \in CustomLengths \cup {NoLength},
          points \in HistoryLengths, later_failure \in BOOLEAN :
          LET used == IF sequence_length # NoLength THEN sequence_length
                      ELSE sv_sequence_length
          IN /\ sv_sequence_length' = used
             /\ sv_last' = [op |-> "predict", custom |-> sequence_length, used |-> used,
                            outcome |-> IF points = 0 \/ points < used
                                        THEN "raise: Insufficient data"
                                        ELSE IF points = used
                                        THEN "raise: Unable to create training sequences"
                                        ELSE IF later_failure THEN "raise"
                                        ELSE "returned"]
    /\ sv_requests' = sv_requests + 1

\* compare_models(ticker, period): sequences of self.sequence_length
ServiceCompare ==
    /\ sv_requests < MaxRequests
    /\ \E points \in HistoryLengths, later_failure \in BOOLEAN :
          sv_last' = [op |-> "compare_models", custom |-> NoLength,
                      used |-> sv_sequence_length,
                      outcome |-> IF points < 100
                                  THEN "raise: Insufficient historical data"
                                  ELSE IF later_failure THEN "raise"
                                  ELSE "returned"]
    /\ sv_requests' = sv_requests + 1
    /\ UNCHANGED sv_sequence_length

----------------------------------------------------------------------------
(* Specifications *)

Init == RegistryInit /\ DecideIdle /\ BacktestIdle /\ WalkIdle /\ LoaderIdle /\ PredictIdle /\ ConformalIdle /\ SuggestIdle /\ SplitIdle /\ ServiceIdle

Next ==
    \/ SaveModel /\ UNCHANGED <<decideVars, backtestVars, walkVars, loaderVars, predictVars, conformalVars, suggestVars, splitVars, serviceVars>>
    \/ EvaluateAndPromote /\ UNCHANGED <<decideVars, backtestVars, walkVars, loaderVars, predictVars, conformalVars, suggestVars, splitVars, serviceVars>>

Spec == Init /\ [][Next]_vars

\* should_promote applied to every pair of metric maps
InitDecide == DecideInit /\ registry = << >> /\ registry_enabled = TRUE
              /\ call = NoCall /\ pre = << >> /\ result = NoResult /\ BacktestIdle
              /\ WalkIdle /\ LoaderIdle /\ PredictIdle /\ ConformalIdle /\ SuggestIdle /\ SplitIdle /\ ServiceIdle

NextDecide ==
    ShouldPromoteCall /\ UNCHANGED <<registryVars, backtestVars, walkVars,
                                          loaderVars, predictVars, conformalVars, suggestVars, splitVars, serviceVars>>

SpecDecide == InitDecide /\ [][NextDecide]_vars

\* evaluate_model_with_backtesting applied to every argument list
InitBacktest == BacktestInit /\ DecideIdle /\ registry = << >>
                /\ registry_enabled = TRUE /\ call = NoCall /\ pre = << >>
                /\ result = NoResult /\ WalkIdle /\ LoaderIdle /\ PredictIdle /\ ConformalIdle /\ SuggestIdle /\ SplitIdle /\ ServiceIdle

NextBacktest ==
    EvaluateModelWithBacktesting
        /\ UNCHANGED <<decideVars, registryVars, walkVars, loaderVars, predictVars, conformalVars, suggestVars, splitVars, serviceVars>>

SpecBacktest == InitBacktest /\ [][NextBacktest]_vars

\* the registry and the promoter's one-call variables at rest
RegistryIdle ==
    /\ registry = << >>
    /\ registry_enabled = TRUE
    /\ call = NoCall
    /\ pre = << >>
    /\ result = NoResult

\* WalkForwardBacktester.backtest on every series and window, any callables
InitWalk == WalkInit /\ DecideIdle /\ RegistryIdle /\ BacktestIdle /\ LoaderIdle
            /\ PredictIdle /\ ConformalIdle /\ SuggestIdle /\ SplitIdle /\ ServiceIdle

NextWalk ==
    \/ BacktestBegin /\ UNCHANGED <<decideVars, registryVars, backtestVars, loaderVars, predictVars, conformalVars, suggestVars, splitVars, serviceVars>>
    \/ BacktestSplit /\ UNCHANGED <<decideVars, registryVars, backtestVars, loaderVars, predictVars, conformalVars, suggestVars, splitVars, serviceVars>>
    \/ BacktestReturn /\ UNCHANGED <<decideVars, registryVars, backtestVars, loaderVars, predictVars, conformalVars, suggestVars, splitVars, serviceVars>>

SpecWalk == InitWalk /\ [][NextWalk]_vars

\* a ModelLoader used by the threads of the server
InitLoader == LoaderInit /\ DecideIdle /\ RegistryIdle /\ BacktestIdle /\ WalkIdle
              /\ PredictIdle /\ ConformalIdle /\ SuggestIdle /\ SplitIdle /\ ServiceIdle

NextLoader ==
    \E t \in Threads :
        \/ InvokeGet(t) /\ UNCHANGED <<decideVars, registryVars, backtestVars, walkVars, predictVars, conformalVars, suggestVars, splitVars, serviceVars>>
        \/ GetFastRead(t) /\ UNCHANGED <<decideVars, registryVars, backtestVars, walkVars, predictVars, conformalVars, suggestVars, splitVars, serviceVars>>
        \/ GetLocked(t) /\ UNCHANGED <<decideVars, registryVars, backtestVars, walkVars, predictVars, conformalVars, suggestVars, splitVars, serviceVars>>
        \/ GetLoaded(t) /\ UNCHANGED <<decideVars, registryVars, backtestVars, walkVars, predictVars, conformalVars, suggestVars, splitVars, serviceVars>>
        \/ InvokePut(t) /\ UNCHANGED <<decideVars, registryVars, backtestVars, walkVars, predictVars, conformalVars, suggestVars, splitVars, serviceVars>>
        \/ PutLocked(t) /\ UNCHANGED <<decideVars, registryVars, backtestVars, walkVars, predictVars, conformalVars, suggestVars, splitVars, serviceVars>>
        \/ PutSaved(t) /\ UNCHANGED <<decideVars, registryVars, backtestVars, walkVars, predictVars, conformalVars, suggestVars, splitVars, serviceVars>>
        \/ InvokeClear(t) /\ UNCHANGED <<decideVars, registryVars, backtestVars, walkVars, predictVars, conformalVars, suggestVars, splitVars, serviceVars>>
        \/ ClearLocked(t) /\ UNCHANGED <<decideVars, registryVars, backtestVars, walkVars, predictVars, conformalVars, suggestVars, splitVars, serviceVars>>
        \/ InvokeWarmup(t) /\ UNCHANGED <<decideVars, registryVars, backtestVars, walkVars, predictVars, conformalVars, suggestVars, splitVars, serviceVars>>
        \/ WarmupFinish(t) /\ UNCHANGED <<decideVars, registryVars, backtestVars, walkVars, predictVars, conformalVars, suggestVars, splitVars, serviceVars>>

SpecLoader == InitLoader /\ [][NextLoader]_vars

\* one request handled by PredictionService.predict
InitPredict == PredictInit /\ DecideIdle /\ RegistryIdle /\ BacktestIdle /\ WalkIdle
               /\ LoaderIdle /\ ConformalIdle /\ SuggestIdle /\ SplitIdle /\ ServiceIdle

NextPredict ==
    \/ PredictTrain /\ UNCHANGED <<decideVars, registryVars, backtestVars, walkVars, loaderVars, conformalVars, suggestVars, splitVars, serviceVars>>
    \/ PredictPersist /\ UNCHANGED <<decideVars, registryVars, backtestVars, walkVars, loaderVars, conformalVars, suggestVars, splitVars, serviceVars>>
    \/ PredictPromoted /\ UNCHANGED <<decideVars, registryVars, backtestVars, walkVars, loaderVars, conformalVars, suggestVars, splitVars, serviceVars>>
    \/ PredictReturn /\ UNCHANGED <<decideVars, registryVars, backtestVars, walkVars, loaderVars, conformalVars, suggestVars, splitVars, serviceVars>>

SpecPredict == InitPredict /\ [][NextPredict]_vars

\* one ConformalPrediction wrapper: calibration, interval requests, monitoring
InitConformal == ConformalInit /\ DecideIdle /\ RegistryIdle /\ BacktestIdle
                 /\ WalkIdle /\ LoaderIdle /\ PredictIdle /\ SuggestIdle /\ SplitIdle /\ ServiceIdle

NextConformal ==
    \/ Calibrate /\ UNCHANGED <<decideVars, registryVars, backtestVars, walkVars, loaderVars, predictVars, suggestVars, splitVars, serviceVars>>
    \/ PredictWithIntervals /\ UNCHANGED <<decideVars, registryVars, backtestVars, walkVars, loaderVars, predictVars, suggestVars, splitVars, serviceVars>>
    \/ UpdateCoverage /\ UNCHANGED <<decideVars, registryVars, backtestVars, walkVars, loaderVars, predictVars, suggestVars, splitVars, serviceVars>>

SpecConformal == InitConformal /\ [][NextConformal]_vars

\* suggest_hyperparameters applied to every argument list
InitSuggest == SuggestInit /\ DecideIdle /\ RegistryIdle /\ BacktestIdle /\ WalkIdle
               /\ LoaderIdle /\ PredictIdle /\ ConformalIdle /\ SplitIdle /\ ServiceIdle

NextSuggest ==
    SuggestHyperparameters
        /\ UNCHANGED <<decideVars, registryVars, backtestVars, walkVars, loaderVars, predictVars, conformalVars, splitVars, serviceVars>>

SpecSuggest == InitSuggest /\ [][NextSuggest]_vars

\* split_data of a rolling and of an expanding backtester on the same series
InitSplit == SplitInit /\ DecideIdle /\ RegistryIdle /\ BacktestIdle /\ WalkIdle
             /\ LoaderIdle /\ PredictIdle /\ ConformalIdle /\ SuggestIdle /\ ServiceIdle

NextSplit ==
    \E b \in Strategies :
        \/ SplitBegin(b) /\ UNCHANGED <<decideVars, registryVars, backtestVars, walkVars, loaderVars, predictVars, conformalVars, suggestVars, serviceVars>>
        \/ SplitIteration(b) /\ UNCHANGED <<decideVars, registryVars, backtestVars, walkVars, loaderVars, predictVars, conformalVars, suggestVars, serviceVars>>

SpecSplit == InitSplit /\ [][NextSplit]_vars

\* the same, every call being run to its end if it has one
SplitCall(b) ==
    (SplitBegin(b) \/ SplitIteration(b))
        /\ UNCHANGED <<decideVars, registryVars, backtestVars, walkVars, loaderVars, predictVars, conformalVars, suggestVars, serviceVars>>

SpecSplitFair == SpecSplit /\ \A b \in Strategies : WF_vars(SplitCall(b))

\* a ModelLoader whose models are promoted in the registry and refreshed
InitRefresh == LoaderInit /\ DecideIdle /\ RegistryIdle /\ BacktestIdle /\ WalkIdle
               /\ PredictIdle /\ ConformalIdle /\ SuggestIdle /\ SplitIdle /\ ServiceIdle

NextRefresh ==
    \/ Promote /\ UNCHANGED <<decideVars, registryVars, backtestVars, walkVars, predictVars, conformalVars, suggestVars, splitVars, serviceVars>>
    \/ \E t \in Threads :
        \/ InvokeGet(t) /\ UNCHANGED <<decideVars, registryVars, backtestVars, walkVars, predictVars, conformalVars, suggestVars, splitVars, serviceVars>>
        \/ GetFastRead(t) /\ UNCHANGED <<decideVars, registryVars, backtestVars, walkVars, predictVars, conformalVars, suggestVars, splitVars, serviceVars>>
        \/ GetLocked(t) /\ UNCHANGED <<decideVars, registryVars, backtestVars, walkVars, predictVars, conformalVars, suggestVars, splitVars, serviceVars>>
        \/ GetLoaded(t) /\ UNCHANGED <<decideVars, registryVars, backtestVars, walkVars, predictVars, conformalVars, suggestVars, splitVars, serviceVars>>
        \/ InvokeRefresh(t) /\ UNCHANGED <<decideVars, registryVars, backtestVars, walkVars, predictVars, conformalVars, suggestVars, splitVars, serviceVars>>
        \/ RefreshCleared(t) /\ UNCHANGED <<decideVars, registryVars, backtestVars, walkVars, predictVars, conformalVars, suggestVars, splitVars, serviceVars>>
        \/ RefreshGet(t) /\ UNCHANGED <<decideVars, registryVars, backtestVars, walkVars, predictVars, conformalVars, suggestVars, splitVars, serviceVars>>

SpecRefresh == InitRefresh /\ [][NextRefresh]_vars

\* the requests served by the one PredictionService of the routes
InitService == ServiceInit /\ DecideIdle /\ RegistryIdle /\ BacktestIdle /\ WalkIdle
               /\ LoaderIdle /\ PredictIdle /\ ConformalIdle /\ SuggestIdle /\ SplitIdle

NextService ==
    \/ ServicePredict /\ UNCHANGED <<decideVars, registryVars, backtestVars, walkVars, loaderVars, predictVars, conformalVars, suggestVars, splitVars>>
    \/ ServiceCompare /\ UNCHANGED <<decideVars, registryVars, backtestVars, walkVars, loaderVars, predictVars, conformalVars, suggestVars, splitVars>>

SpecService == InitService /\ [][NextService]_vars

----------------------------------------------------------------------------
(* Properties *)

\* the newest Champion version before the last operation, 0 if none
PreChampion ==
    LET C == {v \in 1 .. Len(pre) : pre[v] = "Champion"}
    IN IF C = {} THEN 0 ELSE Max(C)

IsFin(x) == x.k = "fin"
Unusable(x) == x = NaN \/ x = Missing

\* (champ - cand)/champ >= 0.05 for numbers cand, champ with champ > 0
ClearsThreshold(cand, champ) == (champ.n - cand.n) * 100 >= 5 * champ.n

EvaluateDone == call.op = "evaluate_and_promote"
SaveDone == call.op = "save_model"

\* C1: at most one version of the model name holds stage Champion, after any
\* sequence of save_model and evaluate_and_promote calls of a single writer
C1_AtMostOneChampion == Cardinality(Champions(registry)) <= 1

\* C2: a save_model whose registry calls all succeed makes the new version
\* Champion exactly if there was no champion or its rmse is strictly lower
\* than the stored champion's
C2_SaveModelPromotesIffBetter ==
    (SaveDone /\ result.version # 0 /\ result.failed = {}) =>
        (registry[result.version].stage = "Champion"
         <=> (\/ PreChampion = 0
              \/ FLess(GetOrInf(call.metrics, "rmse"),
                       GetOrInf(registry[PreChampion].metrics, "rmse"))))

\* C3: with two numeric MASE values should_promote is positive only if the
\* relative MASE improvement is at least 5%, and answers "below threshold"
\* whenever it is smaller; 0.8 against 1.0 promotes with "improved by 20.00%",
\* 0.98 against 1.0 does not
C3_MaseThreshold ==
    (/\ decision # NoDecision
     /\ IsFin(candidate_metrics.mase) /\ IsFin(champion_metrics.mase)) =>
        LET ca == candidate_metrics.mase
            ch == champion_metrics.mase
        IN
        /\ decision.promote => (ch.n > 0 /\ ClearsThreshold(ca, ch))
        /\ (ch.n > 0 /\ ~ClearsThreshold(ca, ch)) =>
              (/\ ~decision.raised /\ ~decision.promote
               /\ decision.reason = "MASE improvement below threshold")
        /\ (ca.n = 80 /\ ch.n = 100 /\ candidate_metrics.smape = Num(5)
            /\ champion_metrics.smape = Num(6)) =>
              (/\ decision.promote /\ decision.reason = "MASE improved by"
               /\ decision.pct = [k |-> "fin", v |-> 2000])
        /\ (ca.n = 98 /\ ch.n = 100) => ~decision.promote

C3_Witness ==
    /\ decision.promote
    /\ candidate_metrics.mase = Num(80) /\ champion_metrics.mase = Num(100)
    /\ decision.reason = "MASE improved by"
    /\ decision.pct = [k |-> "fin", v |-> 2000]

\* C4: when the MASE improvement clears the threshold and the candidate's
\* sMAPE is higher than the champion's, should_promote returns false with a
\* reason naming the sMAPE degradation
C4_SmapeVeto ==
    (/\ decision # NoDecision
     /\ IsFin(candidate_metrics.mase) /\ IsFin(champion_metrics.mase)
     /\ champion_metrics.mase.n > 0
     /\ ClearsThreshold(candidate_metrics.mase, champion_metrics.mase)
     /\ IsFin(candidate_metrics.smape) /\ IsFin(champion_metrics.smape)
     /\ candidate_metrics.smape.n > champion_metrics.smape.n) =>
        (/\ ~decision.raised /\ ~decision.promote
         /\ decision.reason = "MASE improved but sMAPE degraded by")

\* C5: when the candidate's or the champion's MASE is NaN the decision is
\* positive exactly if the relative RMSE improvement is at least 5%, and the
\* answer is an RMSE answer whatever the MASE and sMAPE values are
C5_RmseFallback ==
    (/\ decision # NoDecision
     /\ (candidate_metrics.mase = NaN \/ champion_metrics.mase = NaN)) =>
        LET ca == candidate_metrics.rmse
            ch == champion_metrics.rmse
        IN
        /\ decision.promote <=>
              (IsFin(ca) /\ IsFin(ch) /\ ch.n > 0 /\ ClearsThreshold(ca, ch))
        /\ decision.promote =>
              (/\ decision.reason = "RMSE improved by"
               /\ decision.pct.v = ((ch.n - ca.n) * 20000 + ch.n) \div (2 * ch.n))
        /\ decision.reason \in {"RMSE improved by", "RMSE improvement below threshold",
                                "Cannot compare: missing metrics", "ZeroDivisionError"}

C5_Witness ==
    /\ decision.promote
    /\ candidate_metrics.mase = NaN /\ champion_metrics.mase = Num(80)
    /\ candidate_metrics.rmse = Num(95) /\ champion_metrics.rmse = Num(100)
    /\ decision.reason = "RMSE improved by"

\* C6: when neither MASE nor RMSE is usable (NaN or key missing on either
\* side) should_promote returns false with the reason that the metrics cannot
\* be compared
C6_IncomparableRefused ==
    (/\ decision # NoDecision
     /\ (Unusable(candidate_metrics.mase) \/ Unusable(champion_metrics.mase))
     /\ (Unusable(candidate_metrics.rmse) \/ Unusable(champion_metrics.rmse))) =>
        (/\ ~decision.raised /\ ~decision.promote
         /\ decision.reason = "Cannot compare: missing metrics")

\* C7: with the registry available, the backtest passing and every registry
\* call succeeding, evaluate_and_promote saves the candidate as a new Champion
\* version exactly if there was no champion or should_promote is positive;
\* otherwise nothing is saved and no stage changes
C7_PromotesIffPositive ==
    (/\ EvaluateDone /\ registry_enabled
     /\ call.metrics # BacktestRaised /\ result.failed = {}) =>
        LET positive ==
                \/ PreChampion = 0
                \/ should_promote(call.metrics, registry[PreChampion].metrics, TRUE).promote
        IN
        /\ positive =>
              (/\ result.promoted
               /\ Len(registry) = Len(pre) + 1
               /\ result.version = Len(registry)
               /\ registry[Len(registry)].stage = "Champion"
               /\ registry[Len(registry)].metrics = call.metrics)
        /\ ~positive =>
              (/\ ~result.promoted
               /\ result.saves = 0
               /\ StagesOf(registry) = pre)

C7_Witness ==
    /\ EvaluateDone /\ registry_enabled /\ result.failed = {}
    /\ Cardinality({v \in 1 .. Len(pre) : pre[v] = "Champion"}) = 2
    /\ result.promoted
    /\ registry[result.version].stage = "Champion"

\* C8: a positive decision against an existing champion whose save and
\* Champion transition succeed returns promoted = true with the new version
\* in stage Champion; the previous champion is Archived unless the archive
\* transition failed, and a failed archive changes nothing else
C8_PromotionWinsOverArchive ==
    (/\ EvaluateDone /\ registry_enabled /\ PreChampion # 0
     /\ call.metrics # BacktestRaised
     /\ should_promote(call.metrics, registry[PreChampion].metrics, TRUE).promote
     /\ result.failed \cap {"lookup", "save", "transition"} = {}) =>
        /\ result.promoted
        /\ result.version = Len(pre) + 1
        /\ registry[result.version].stage = "Champion"
        /\ "archive" \notin result.failed => registry[PreChampion].stage = "Archived"
        /\ "archive" \in result.failed => registry[PreChampion].stage = "Champion"

C8_Witness ==
    /\ EvaluateDone /\ PreChampion # 0
    /\ "archive" \in result.failed
    /\ result.promoted
    /\ registry[result.version].stage = "Champion"
    /\ registry[PreChampion].stage = "Champion"

\* C9 as claimed: evaluate_and_promote never raises, saves at most once, and
\* returns promoted = false with a reason after a backtest failure and after
\* every failed or unavailable registry call
C9_EveryFailureNotPromoted ==
    EvaluateDone =>
        /\ ~result.raised
        /\ result.saves <= 1
        /\ (\/ ~registry_enabled
            \/ call.metrics = BacktestRaised
            \/ result.failed # {}) =>
               (~result.promoted /\ result.reason # "none")

\* C9 as amended: evaluate_and_promote never raises, saves at most once, and
\* returns promoted = false with a reason after a backtest failure, with the
\* registry unavailable, and after a failed champion lookup, save or Champion
\* transition of its own; a failed archive of the old champion or a failed
\* stage transition inside save_model does not by itself prevent the promotion
C9_FailuresDegrade ==
    EvaluateDone =>
        /\ ~result.raised
        /\ result.saves <= 1
        /\ (\/ ~registry_enabled
            \/ call.metrics = BacktestRaised
            \/ result.failed \cap {"lookup", "save", "transition"} # {}) =>
               (~result.promoted /\ result.version = 0 /\ result.reason # "none")

C9_Witness ==
    /\ EvaluateDone /\ registry_enabled
    /\ "save" \in result.failed
    /\ result.saves = 1
    /\ ~result.promoted
    /\ result.reason = "Failed to save model to registry"

\* number of windows of train_size + test_size points that fit into n points
\* when the window advances by step_size
SplitCount(n, train_size, test_size, step_size) ==
    IF n < train_size + test_size THEN 0
    ELSE (n - train_size - test_size) \div step_size + 1

\* C10: evaluate_model_with_backtesting raises and returns no metrics whenever
\* the series yields fewer than 3 splits; 100 points with train_size 200,
\* test_size 50 and step_size 25 yield no split and raise
C10_TooFewSplitsRaises ==
    bt_result # NoBacktest =>
        LET k == SplitCount(bt_args.n, bt_args.train_size, bt_args.test_size,
                            bt_args.step_size)
        IN
        /\ k < 3 =>
              (/\ bt_result.outcome \in {"raise: Insufficient data for backtesting",
                                         "raise: Insufficient backtest splits"}
               /\ bt_result.metric_entries = 0)
        /\ bt_result.outcome = "returned metrics" => bt_result.total_splits = k
        /\ (/\ bt_args.n = 100 /\ bt_args.train_size = 200
            /\ bt_args.test_size = 50 /\ bt_args.step_size = 25) =>
              (k = 0 /\ bt_result.outcome # "returned metrics")

C10_Witness ==
    /\ bt_result.outcome = "raise: Insufficient backtest splits"
    /\ bt_result.total_splits > 0
    /\ bt_result.total_splits < 3


\* C11: split_data returns no split when n < train_size + test_size and
\* otherwise floor((n - train_size - test_size) / step_size) + 1 splits;
\* 300 points with train_size 200, test_size 50, step_size 25 give 3 splits
C11_SplitCount ==
    wf_pc \in {"loop", "returned"} =>
        /\ Len(wf_splits) = SplitCount(wf_args.n, wf_args.train_size,
                                       wf_args.test_size, wf_args.step_size)
        /\ wf_args.n < wf_args.train_size + wf_args.test_size => wf_splits = << >>
        /\ (/\ wf_args.n = 300 /\ wf_args.train_size = 200
            /\ wf_args.test_size = 50 /\ wf_args.step_size = 25)
              => Len(wf_splits) = 3

\* split_data has run on the 300-point scenario, and on a series where the
\* last window ends exactly at the end of the series after several steps
C11_Witness ==
    /\ wf_pc = "loop"
    /\ \/ wf_args.n = 300 /\ Len(wf_splits) = 3
       \/ /\ wf_args.n = 6 /\ wf_args.train_size = 1 /\ wf_args.test_size = 1
          /\ wf_args.step_size = 2 /\ Len(wf_splits) = 3

\* C12: every split trains on exactly train_size points starting at
\* (split_number - 1) * step_size, tests on the test_size points that follow
\* immediately and end within the series; split numbers are 1, 2, 3, ... and
\* backtest evaluates the splits in strictly increasing split_number order
C12_SplitShape ==
    /\ \A i \in 1 .. Len(wf_splits) :
          LET s == wf_splits[i] IN
          /\ s.split_number = i
          /\ s.train_start = (s.split_number - 1) * wf_args.step_size
          /\ s.train_end - s.train_start = wf_args.train_size
          /\ s.test_start = s.train_end
          /\ s.test_end - s.test_start = wf_args.test_size
          /\ s.test_end <= wf_args.n
    /\ \A i \in 1 .. Len(wf_results) : wf_results[i].split_number = i
    /\ Len(wf_results) = wf_i

\* a backtest over at least three splits has evaluated them all
C12_Witness ==
    /\ wf_pc = "returned"
    /\ Len(wf_splits) >= 3
    /\ Len(wf_results) = Len(wf_splits)
    /\ wf_splits[2].train_start > 0

\* the splits whose train_fn or predict_fn raised
RaisedInCallables ==
    {i \in 1 .. Len(wf_outcomes) :
        wf_outcomes[i] \in {"train_raises", "predict_raises"}}

\* the splits whose try block did not run to its end
FailedSplits == {i \in 1 .. Len(wf_outcomes) : wf_outcomes[i] # "ok"}

\* the splits that have points in the pooled predictions
PooledSplits ==
    {wf_predictions[j].split_number : j \in 1 .. Len(wf_predictions)}

\* the pooled actuals are the points the pooled predictions were made for
PooledAligned ==
    /\ Len(wf_predictions) = Len(wf_actuals)
    /\ \A j \in 1 .. Len(wf_actuals) : wf_actuals[j] = wf_predictions[j].point

\* the number of pooled points of the splits in S
RECURSIVE PooledSize(_)
PooledSize(S) ==
    IF S = {} THEN 0
    ELSE LET i == CHOOSE x \in S : TRUE
         IN (wf_splits[i].test_end - wf_splits[i].test_start) + PooledSize(S \ {i})

ReturnedGets == {t \in Threads : ld_thr[t].op = "get" /\ ld_thr[t].pc = "done"}

\* C14: once cache_trained_model(model, t, a) has returned, a get_model(t, a)
\* begun by any thread returns that model unless another put or a clear of the
\* key begins in between, whatever other gets run concurrently
C14_PutThenGet ==
    \A t \in ReturnedGets :
        ld_thr[t].expect # NoModel =>
            /\ ld_thr[t].ret = ld_thr[t].expect
            /\ ~ld_thr[t].raised

\* a get returned the model of an earlier put although the registry holds an
\* artifact for the key that a get in flight during the put was about to load
C14_Witness ==
    \E t \in ReturnedGets :
        /\ ld_thr[t].expect.kind = "trained"
        /\ ld_thr[t].ret = ld_thr[t].expect
        /\ ld_enabled
        /\ ld_backend[ld_thr[t].key] > 0
        /\ ld_calls = 3

\* C15: between clears, the artifact of a key is loaded from the registry or
\* constructed at most once, and every get_model begun after a first one has
\* returned gets the handle that first call returned
C15_LoadOnce ==
    /\ \A k \in CacheKeys : ld_hist.made[k] <= 1
    /\ \A t \in ReturnedGets :
          ld_thr[t].after # NoModel => ld_thr[t].ret = ld_thr[t].after

\* C16: a warmup call begun after a warmup call has returned does no registry
\* load, writes nothing to the cache and returns at once, whatever its preload
\* list and whatever the registry holds
C16_WarmupIdempotent ==
    \A t \in Threads :
        ld_thr[t].op = "warmup" /\ ld_thr[t].late =>
            /\ ld_thr[t].pc = "done"
            /\ ld_thr[t].loads = 0
            /\ ld_thr[t].writes = 0

\* a second warmup has returned while the registry holds an artifact of the
\* default preload list that is not in the cache
C16_Witness ==
    \E t \in Threads :
        /\ ld_thr[t].op = "warmup" /\ ld_thr[t].late /\ ld_thr[t].pc = "done"
        /\ ld_enabled /\ ld_warm
        /\ \E k \in {DefaultPreload[i] : i \in 1 .. Len(DefaultPreload)} :
              ld_backend[k] > 0 /\ ld_cache[k] = NoModel

\* C17: no thread holds the cache lock while its registry load or registry
\* save is in progress
C17_LockOnlyAroundMap ==
    \A t \in Threads :
        ld_lock = t => ld_thr[t].pc \notin {"g_load", "p_save"}


\* position of the first occurrence of event e in pr_events, 0 if none
FirstEvent(e) ==
    LET P == {i \in 1 .. Len(pr_events) : pr_events[i] = e}
    IN IF P = {} THEN 0 ELSE MinOf(P)

\* C18: every successfully trained LSTM/RNN model is stored in the cache
\* under (model_type, "latest") before the safe promoter evaluates it, and is
\* in the cache at the latest when the block that persists it has run
C18_CachedBeforePromotion ==
    pr_type \in {"LSTM", "RNN"} /\ pr_in.has_loader =>
        /\ FirstEvent("evaluate_and_promote") > 0 =>
              /\ FirstEvent("cache_latest") > 0
              /\ FirstEvent("cache_latest") < FirstEvent("evaluate_and_promote")
        /\ pr_pc \in {"persisted", "returned"} =>
              Key(pr_type, "latest") \in pr_cached

\* C19: predict_with_intervals on a wrapper whose quantile was never set
\* (calibrate never called, or never completed) raises whatever the
\* predictions and the adaptive settings are, returns no interval, and
\* leaves quantile and coverage_history as they were
C19_UncalibratedRaises ==
    (cf_last.op = "predict_with_intervals" /\ ~cf_last.pre_quantile.set)
        => /\ cf_last.raised
           /\ ~cf_last.interval
           /\ cf_last.post_quantile = cf_last.pre_quantile
           /\ cf_last.post_history = cf_last.pre_history
           /\ cf_quantile = cf_last.pre_quantile
           /\ cf_history = cf_last.pre_history

C19_Witness ==
    /\ cf_last.op = "predict_with_intervals"
    /\ ~cf_quantile.set
    /\ cf_last.raised
    /\ cf_adaptive

\* C20: on a calibrated adaptive wrapper every update_coverage call appends
\* one observation, coverage_history never exceeds 100 entries, and what it
\* holds are the most recent arrivals in arrival order
C20_HistoryCapped ==
    (cf_adaptive /\ cf_quantile.set)
        => /\ Len(cf_history) <= HistoryCap
           /\ Len(cf_history) = Min(cf_updates, HistoryCap)
           /\ \A i \in 1 .. Len(cf_history) :
                  cf_history[i].n = cf_updates - Len(cf_history) + i

C20_Witness ==
    /\ cf_adaptive /\ cf_quantile.set
    /\ cf_updates > HistoryCap
    /\ Len(cf_history) = HistoryCap
    /\ cf_history[1].n = cf_updates - HistoryCap + 1

\* the mean of the last m entries of a coverage history
MeanOfLast(history, m) ==
    LET total == SumCoverage(SubSeq(history, Len(history) - m + 1, Len(history)))
    IN Frac(total.n, total.d * m)

\* the multiplier (in hundredths) that the mean of the last min(k, 10)
\* observations calls for
MultiplierOfRecentMean(history, coverage) ==
    LET mean == MeanOfLast(history, Min(Len(history), RecentWindow))
    IN IF FracLess(mean, coverage) THEN 110
       ELSE IF FracLess(coverage, mean) THEN 95
       ELSE 100

\* C21: an interval request on an adaptive wrapper with k >= 1 recorded
\* observations gets the width quantile * 1.10, quantile * 0.95 or quantile
\* according to whether the mean of the last min(k, 10) observations is
\* below, above or at the target coverage, for every k
C21_WidthFollowsRecentMean ==
    (/\ cf_last.op = "predict_with_intervals"
     /\ ~cf_last.raised
     /\ cf_adaptive
     /\ Len(cf_last.pre_history) >= 1)
        => cf_last.width =
              Frac(cf_quantile.n * MultiplierOfRecentMean(cf_last.pre_history, cf_coverage),
                   cf_quantile.d * 100)

\* the number of calibration pairs whose actual lies in [lower, upper] when
\* the intervals are built around the calibration predictions:
\* prediction - width <= actual <= prediction + width exactly when
\* |prediction - actual| <= width
CalibrationCovered(width) ==
    Cardinality({i \in 1 .. Len(cf_scores) : cf_scores[i] * width.d <= width.n})

\* C22: right after calibrate on n >= 1 pairs (empty coverage history, alpha
\* left at 1 - coverage), the intervals around the calibration predictions
\* contain at least ceil(coverage * n) of the n actuals
C22_CalibrationCoverage ==
    (/\ cf_last.op = "predict_with_intervals"
     /\ ~cf_last.raised
     /\ cf_last.pre_history = << >>
     /\ cf_alpha = Frac(cf_coverage.d - cf_coverage.n, cf_coverage.d))
        => CalibrationCovered(cf_last.width) * cf_coverage.d
              >= cf_coverage.n * Len(cf_scores)

\* C23: suggest_hyperparameters never raises and returns a map holding
\* units, epochs, batch_size, learning_rate and dropout with epochs > 0 and
\* batch_size > 0, whatever the model type, the data size, the previous
\* runs and the availability of the optimizer
C23_AlwaysUsableSuggestion ==
    sg_out # NoSuggestion
        => /\ ~sg_out.raised
           /\ DOMAIN sg_out.ret = {"units", "epochs", "batch_size", "learning_rate", "dropout"}
           /\ sg_out.ret.epochs > 0
           /\ sg_out.ret.batch_size > 0

\* C24: when the optimizer stage fails its output is the size-tiered
\* defaults, and when the blending stage fails the returned map is the
\* output of the stage before it: a failing stage updates no key
C24_StageFallback ==
    sg_out # NoSuggestion
        => /\ sg_out.optimizer_failed => sg_out.optimized = sg_out.defaults
           /\ sg_out.blend_failed => sg_out.ret = sg_out.optimized

C29_SplitDataTerminates ==
    <>(\A b \in Strategies : sp_pc[b] = "returned")

\* C26: a refresh_model that returns a model returns the version that was
\* Champion in the registry when the refresh was made, and leaves it in the
\* cache under its key, also when an earlier champion had been loaded
\* through the loader before the promotion
C26_RefreshHotSwaps ==
    \A t \in Threads :
        (/\ ld_thr[t].op = "refresh" /\ ld_thr[t].pc = "done"
         /\ ld_thr[t].ret # NoModel
         /\ \A u \in Threads \ {t} : ld_thr[u].op = "none")
            => /\ ld_thr[t].ret = ld_thr[t].expect
               /\ ld_cache[ld_thr[t].key] = ld_thr[t].ret

\* C27: the result of evaluate_and_promote agrees with the registry: with
\* promoted = false every version that existed keeps its stage and the
\* champion is the entry it was; with promoted = true the returned version
\* is in stage Champion
C27_ResultAgreesWithRegistry ==
    call.op = "evaluate_and_promote"
        => /\ ~result.promoted
                => /\ \A v \in 1 .. Len(pre) : registry[v].stage = pre[v]
                   /\ LatestChampion(registry) = PreChampion
                   /\ Champions(registry) = {v \in 1 .. Len(pre) : pre[v] = "Champion"}
           /\ result.promoted
                => /\ result.version \in 1 .. Len(registry)
                   /\ registry[result.version].stage = "Champion"

\* C28: in evaluate_model_with_backtesting the predict closure returns as
\* many predictions as the split has test points, a split whose training
\* succeeds gives a metrics entry, and an evaluation that passes has at
\* least min_splits metrics entries behind its mean metrics
C28_PredictionsMatchTestWindow ==
    (/\ bt_result # NoBacktest
     /\ bt_result.outcome # "raise: Insufficient data for backtesting") =>
        LET splits == split_data(bt_args.n, bt_args.train_size, bt_args.test_size,
                                 bt_args.step_size)
        IN
        /\ \A i \in 1 .. Len(splits) :
              LET test_len == splits[i].test_end - splits[i].test_start
                  train_len == splits[i].train_end - splits[i].train_start
              IN /\ SequenceCount(test_len, bt_args.sequence_length) = test_len
                 /\ (~bt_args.train_raises
                       /\ SequenceCount(train_len, bt_args.sequence_length) > 0)
                      => SplitResult(splits[i], bt_args.sequence_length,
                                     bt_args.train_raises).kind = "metrics"
        /\ bt_result.outcome = "returned metrics"
              => bt_result.metric_entries >= min_splits

\* C30: a custom sequence_length affects only the predict call it is passed
\* to: after every call the service's sequence_length is the configured
\* default, and a predict or compare_models call made without a custom
\* value uses the default
C30_CustomLengthIsPerCall ==
    /\ sv_sequence_length = SEQUENCE_LENGTH
    /\ (sv_last.op # "none" /\ sv_last.custom = NoLength)
          => sv_last.used = SEQUENCE_LENGTH

============================================================================
